---- MODULE Spec2Model ----
(***************************************************************************)
(* WeekWise: the REST handlers of the learning-management server over the  *)
(* key-value store, and the admin / student dashboards that call them.     *)
(* Every `await kv.*` of a handler is one step, so that requests           *)
(* interleave at the granularity of single store operations.               *)
(***************************************************************************)
EXTENDS Integers, Sequences, FiniteSets, TLC

\* ------------------------------------------------------------------ bounds
\* number of subjects and of weeks the handlers may create
MaxSubjects == 1
MaxWeeks == 1
\* number of requests that may be in flight at the same time
MaxReqs == 1

\* number of admin dashboards that are open
MaxAdmins == 2

Slots == 1..MaxReqs
\* connection 0 is the student dashboard's, 1..MaxAdmins the admin dashboards'
Conns == 0..(IF MaxReqs > MaxAdmins THEN MaxReqs ELSE MaxAdmins)

\* the same for the runs in which requests are served one at a time
SeqSubjects == 2
SeqWeeks == 1

\* ------------------------------------------------------- identity provider
\* bearer tokens a caller may present: none, one the provider rejects, and
\* the tokens of an admin, of a student and of an account without profile
Tokens == {"none", "bad", "tokA", "tokS", "tokN"}

\* supabase.auth.getUser(accessToken): the account of a token, "" on error
getUser(token) ==
  CASE token = "tokA" -> "a"
    [] token = "tokS" -> "s"
    [] token = "tokN" -> "n"
    [] OTHER -> ""

\* the users: namespace after the admin and the student have signed up
InitUsers == [a |-> [id |-> "a", role |-> "admin"],
              s |-> [id |-> "s", role |-> "student"]]

\* the accounts of the identity provider behind these tokens: id to email
InitAccounts == [a |-> 101, s |-> 102, n |-> 103]

\* ------------------------------------------------------------ request inputs
\* a url is the sequence of its characters
BlankUrl == <<" ", " ">>
GoodUrl == <<"h", "t", "t", "p">>
BlankLink == [url |-> BlankUrl, title |-> ""]
GoodLink == [url |-> GoodUrl, title |-> "X"]

\* bodies of POST /admin/subjects; a missing name is the empty string
SubjectBodies == [name : {"", "n1"}, description : {""}]

\* bodies of POST /admin/weeks; missing fields carry their falsy value
WeekBodies(subjectIds, links) ==
  [subjectId : {0} \cup subjectIds, weekNumber : {0, 1}, title : {"", "t1"},
   videoLinks : links, published : {FALSE}]

\* bodies of PUT /admin/weeks/:id: partial weeks
UpdateBodies == { [published |-> TRUE] }

\* partial weeks that carry a blank link or the id of another week
SeqUpdateBodies ==
  { [videoLinks |-> <<BlankLink>>], [id |-> 2] }

VARIABLES users, subjects, weeks, reqs, nextSubject, nextWeek, dash, progress, now, stu,
          accounts, calc, app

vars == <<users, subjects, weeks, reqs, nextSubject, nextWeek, dash, progress, now, stu,
          accounts, calc, app>>

\* the state of the server: the store, the requests, the id generator and
\* the clock
server == <<users, subjects, weeks, reqs, nextSubject, nextWeek, progress, now, accounts>>

\* ----------------------------------------------------------------- helpers
NoWeek == [id |-> 0]

Idle == [op |-> "idle", token |-> "none", id |-> 0, pc |-> "idle",
         status |-> 0, found |-> NoWeek, todo |-> <<>>, list |-> <<>>]

\* a dashboard: the weeks it holds and the fetch it has under way
NoDash == [weeks |-> <<>>, call |-> "none", id |-> 0, body |-> NoWeek]

\* a fetch of the student dashboard: none, saveProgress ("save"),
\* loadProgress ("load") or loadWeeks ("weeks")
NoCall == [kind |-> "none", weekId |-> 0, completed |-> FALSE, subjectId |-> 0]

\* the student dashboard before it is mounted
NoStudent == [selectedSubject |-> 0, weeks |-> <<>>,
              selectedWeek |-> 0, answers |-> <<>>, showResults |-> FALSE,
              progressData |-> <<>>, calls |-> <<>>]

\* no function of the dashboards has been evaluated
NoCalc == [fn |-> "none"]

\* useState<any>(null): no user
NoUser == [id |-> "null"]

\* App before it is mounted: the three useState values, the await the
\* component is at, the access token of the session it has obtained and the
\* outcome of the call it awaits
NoApp == [user |-> NoUser, accessToken |-> "", loading |-> TRUE,
          pc |-> "none", session |-> "", result |-> "none"]

\* a request that has just been received
NewReq(op, token, id) == [Idle EXCEPT !.op = op, !.token = token, !.id = id]

\* the authorization block returns c.json({ error }, 401 | 403) or the handler
\* catches an exception of the block (500); the response does not depend on
\* the route
Reject(q, status) == [Idle EXCEPT !.op = "admin", !.token = q.token, !.pc = "done", !.status = status]

\* c.json({ error }, status): the handler returns an error
Fail(q, status) == [Idle EXCEPT !.op = q.op, !.token = q.token, !.pc = "done", !.status = status]

\* c.json({ success: true, ... }): the handler returns its result
Reply(q, status) == [q EXCEPT !.pc = "done", !.status = status, !.todo = <<>>]

\* the orders in which a prefix scan may return the keys of K
ScanOrders(K) ==
  { o \in [1..Cardinality(K) -> K] : \A i, j \in 1..Cardinality(K) : o[i] = o[j] => i = j }

\* kv.getByPrefix over a namespace kvs restricted to keys K, in scan order o
Values(kvs, o) == [i \in 1..Len(o) |-> kvs[o[i]]]

\* Array.prototype.find(w => w.id === weekId): first match, NoWeek if none
RECURSIVE find(_, _)
find(list, weekId) ==
  IF list = <<>> THEN NoWeek
  ELSE IF Head(list).id = weekId THEN Head(list)
  ELSE find(Tail(list), weekId)

\* { ...updates, ...week }: the spread the wrong way round
MergeWeekWins(week, updates) ==
  [f \in DOMAIN week \cup DOMAIN updates |->
     IF f \in DOMAIN week THEN week[f] ELSE updates[f]]

\* { ...week, ...updates }
Merge(week, updates) ==
  [f \in DOMAIN week \cup DOMAIN updates |->
     IF f \in DOMAIN updates THEN updates[f] ELSE week[f]]

\* field || d for a field of a request body: d when the field is absent
orElse(body, field, d) == IF field \in DOMAIN body THEN body[field] ELSE d

\* kv.set(key, value) and kv.del(key) on one namespace
kvSet(kvs, key, value) ==
  [k \in DOMAIN kvs \cup {key} |-> IF k = key THEN value ELSE kvs[k]]

kvDel(kvs, key) == [k \in DOMAIN kvs \ {key} |-> kvs[k]]

\* String.prototype.trim()
RECURSIVE trimStart(_)
trimStart(url) ==
  IF url # <<>> /\ Head(url) = " " THEN trimStart(Tail(url)) ELSE url

RECURSIVE trimEnd(_)
trimEnd(url) ==
  IF url # <<>> /\ url[Len(url)] = " " THEN trimEnd(SubSeq(url, 1, Len(url) - 1)) ELSE url

trim(url) == trimEnd(trimStart(url))

\* ------------------------------------------------------------ authorization
\* the block without its role check
AuthAdminNoRole(token, ok) ==
  IF token = "none" THEN 401
  ELSE IF getUser(token) = "" THEN 401
  ELSE IF ~ok THEN 500
  ELSE 0

\* the block every admin route starts with: 401, 403, 500 when kv.get throws,
\* 0 when the caller is an admin
AuthAdmin(token, ok) ==
  IF token = "none" THEN 401
  ELSE IF getUser(token) = "" THEN 401
  ELSE IF ~ok THEN 500
  ELSE IF getUser(token) \notin DOMAIN users \/ users[getUser(token)].role # "admin" THEN 403
  ELSE 0

Init ==
  /\ users = InitUsers
  /\ subjects = <<>>
  /\ weeks = <<>>
  /\ reqs = [r \in Conns |-> Idle]
  /\ nextSubject = 1
  /\ nextWeek = 1
  /\ dash = [c \in Conns |-> NoDash]
  /\ progress = <<>>
  /\ now = 1
  /\ stu = NoStudent
  /\ accounts = InitAccounts
  /\ calc = NoCalc
  /\ app = NoApp

\* ---------------------------------------------------------------- subjects
\* POST /admin/subjects up to the kv.set
PostAdminSubjects(r, token, body, ok) ==
  /\ reqs[r].pc = "idle"
  /\ LET q == NewReq("createSubject", token, 0)
         a == AuthAdmin(token, ok)
     IN IF a # 0 THEN reqs' = [reqs EXCEPT ![r] = Reject(q, a)] /\ nextSubject' = nextSubject
        ELSE IF body.name = ""
          THEN reqs' = [reqs EXCEPT ![r] = Fail(q, 400)] /\ nextSubject' = nextSubject
        ELSE /\ reqs' = [reqs EXCEPT ![r] =
                   [q EXCEPT !.pc = "set",
                             !.found = [id |-> nextSubject, name |-> body.name,
                                        description |-> body.description,
                                        createdAt |-> nextSubject]]]
             /\ nextSubject' = nextSubject + 1
  /\ UNCHANGED <<users, subjects, weeks, nextWeek, dash, progress, now, stu, accounts, calc, app>>

\* the kv.set under a key that is not built from the new id
PostAdminSubjectsSetFixedKey(r, ok) ==
  /\ reqs[r].op = "createSubject" /\ reqs[r].pc = "set"
  /\ IF ok
       THEN /\ subjects' = kvSet(subjects, 1, reqs[r].found)
            /\ reqs' = [reqs EXCEPT ![r] = Reply(@, 200)]
       ELSE /\ subjects' = subjects
            /\ reqs' = [reqs EXCEPT ![r] = Fail(@, 500)]
  /\ UNCHANGED <<users, weeks, nextSubject, nextWeek, dash, progress, now, stu, accounts, calc, app>>

\* await kv.set(`subjects:${subjectId}`, subject)
PostAdminSubjectsSet(r, ok) ==
  /\ reqs[r].op = "createSubject" /\ reqs[r].pc = "set"
  /\ IF ok
       THEN /\ subjects' = kvSet(subjects, reqs[r].found.id, reqs[r].found)
            /\ reqs' = [reqs EXCEPT ![r] = Reply(@, 200)]
       ELSE /\ subjects' = subjects
            /\ reqs' = [reqs EXCEPT ![r] = Fail(@, 500)]
  /\ UNCHANGED <<users, weeks, nextSubject, nextWeek, dash, progress, now, stu, accounts, calc, app>>

\* GET /subjects
GetSubjects(r, ok) ==
  /\ reqs[r].pc = "idle"
  /\ IF ok
       THEN \E o \in ScanOrders(DOMAIN subjects) :
              reqs' = [reqs EXCEPT ![r] =
                 Reply([NewReq("getSubjects", "none", 0) EXCEPT !.list = Values(subjects, o)], 200)]
       ELSE reqs' = [reqs EXCEPT ![r] = Fail(NewReq("getSubjects", "none", 0), 500)]
  /\ UNCHANGED <<users, subjects, weeks, nextSubject, nextWeek, dash, progress, now, stu, accounts, calc, app>>

\* DELETE /admin/subjects/:id up to the kv.del of the subject
DeleteAdminSubjects(r, token, id, ok) ==
  /\ reqs[r].pc = "idle"
  /\ LET q == NewReq("deleteSubject", token, id)
         a == AuthAdmin(token, ok)
     IN reqs' = [reqs EXCEPT ![r] =
                   IF a # 0 THEN Reject(q, a) ELSE [q EXCEPT !.pc = "delSubject"]]
  /\ UNCHANGED <<users, subjects, weeks, nextSubject, nextWeek, dash, progress, now, stu, accounts, calc, app>>

\* await kv.del(`subjects:${subjectId}`)
DeleteSubjectKey(r, ok) ==
  /\ reqs[r].op = "deleteSubject" /\ reqs[r].pc = "delSubject"
  /\ IF ok
       THEN /\ subjects' = kvDel(subjects, reqs[r].id)
            /\ reqs' = [reqs EXCEPT ![r].pc = "scan"]
       ELSE /\ subjects' = subjects
            /\ reqs' = [reqs EXCEPT ![r] = Fail(@, 500)]
  /\ UNCHANGED <<users, weeks, nextSubject, nextWeek, dash, progress, now, stu, accounts, calc, app>>

\* const weeks = await kv.getByPrefix(`weeks:${subjectId}:`)
DeleteSubjectScan(r, ok) ==
  /\ reqs[r].op = "deleteSubject" /\ reqs[r].pc = "scan"
  /\ IF ok
       THEN \E o \in ScanOrders({k \in DOMAIN weeks : k[1] = reqs[r].id}) :
              LET ids == [i \in 1..Len(o) |-> weeks[o[i]].id]
              IN reqs' = [reqs EXCEPT ![r] =
                    IF ids = <<>> THEN Reply(@, 200)
                    ELSE [@ EXCEPT !.pc = "delWeeks", !.todo = ids]]
       ELSE reqs' = [reqs EXCEPT ![r] = Fail(@, 500)]
  /\ UNCHANGED <<users, subjects, weeks, nextSubject, nextWeek, dash, progress, now, stu, accounts, calc, app>>

\* one iteration of the loop: await kv.del(`weeks:${subjectId}:${week.id}`)
DeleteSubjectWeek(r, ok) ==
  /\ reqs[r].op = "deleteSubject" /\ reqs[r].pc = "delWeeks"
  /\ IF ok
       THEN /\ weeks' = kvDel(weeks, <<reqs[r].id, Head(reqs[r].todo)>>)
            /\ reqs' = [reqs EXCEPT ![r] =
                  IF Tail(@.todo) = <<>> THEN Reply(@, 200)
                  ELSE [@ EXCEPT !.todo = Tail(@)]]
       ELSE /\ weeks' = weeks
            /\ reqs' = [reqs EXCEPT ![r] = Fail(@, 500)]
  /\ UNCHANGED <<users, subjects, nextSubject, nextWeek, dash, progress, now, stu, accounts, calc, app>>

\* ------------------------------------------------------------------- weeks
\* the route without its check of weekNumber
PostAdminWeeksAnyNumber(r, token, body, ok) ==
  /\ reqs[r].pc = "idle"
  /\ LET q == NewReq("createWeek", token, 0)
         a == AuthAdmin(token, ok)
     IN IF a # 0 THEN reqs' = [reqs EXCEPT ![r] = Reject(q, a)] /\ nextWeek' = nextWeek
        ELSE IF body.subjectId = 0 \/ body.title = ""
          THEN reqs' = [reqs EXCEPT ![r] = Fail(q, 400)] /\ nextWeek' = nextWeek
        ELSE /\ reqs' = [reqs EXCEPT ![r] =
                   [q EXCEPT !.pc = "set",
                             !.found = [id |-> nextWeek,
                                        subjectId |-> body.subjectId,
                                        weekNumber |-> body.weekNumber,
                                        title |-> body.title,
                                        videoLinks |-> orElse(body, "videoLinks", <<>>),
                                        audioLinks |-> orElse(body, "audioLinks", <<>>),
                                        pdfLinks |-> orElse(body, "pdfLinks", <<>>),
                                        questions |-> orElse(body, "questions", <<>>),
                                        published |-> orElse(body, "published", FALSE),
                                        createdAt |-> nextWeek]]]
             /\ nextWeek' = nextWeek + 1
  /\ UNCHANGED <<users, subjects, weeks, nextSubject, dash, progress, now, stu, accounts, calc, app>>

\* POST /admin/weeks up to the kv.set
PostAdminWeeks(r, token, body, ok) ==
  /\ reqs[r].pc = "idle"
  /\ LET q == NewReq("createWeek", token, 0)
         a == AuthAdmin(token, ok)
     IN IF a # 0 THEN reqs' = [reqs EXCEPT ![r] = Reject(q, a)] /\ nextWeek' = nextWeek
        ELSE IF body.subjectId = 0 \/ body.weekNumber = 0 \/ body.title = ""
          THEN reqs' = [reqs EXCEPT ![r] = Fail(q, 400)] /\ nextWeek' = nextWeek
        ELSE /\ reqs' = [reqs EXCEPT ![r] =
                   [q EXCEPT !.pc = "set",
                             !.found = [id |-> nextWeek,
                                        subjectId |-> body.subjectId,
                                        weekNumber |-> body.weekNumber,
                                        title |-> body.title,
                                        videoLinks |-> orElse(body, "videoLinks", <<>>),
                                        audioLinks |-> orElse(body, "audioLinks", <<>>),
                                        pdfLinks |-> orElse(body, "pdfLinks", <<>>),
                                        questions |-> orElse(body, "questions", <<>>),
                                        published |-> orElse(body, "published", FALSE),
                                        createdAt |-> nextWeek]]]
             /\ nextWeek' = nextWeek + 1
  /\ UNCHANGED <<users, subjects, weeks, nextSubject, dash, progress, now, stu, accounts, calc, app>>

\* await kv.set(`weeks:${subjectId}:${weekId}`, week)
PostAdminWeeksSet(r, ok) ==
  /\ reqs[r].op = "createWeek" /\ reqs[r].pc = "set"
  /\ IF ok
       THEN /\ weeks' = kvSet(weeks, <<reqs[r].found.subjectId, reqs[r].found.id>>, reqs[r].found)
            /\ reqs' = [reqs EXCEPT ![r] = Reply(@, 200)]
       ELSE /\ weeks' = weeks
            /\ reqs' = [reqs EXCEPT ![r] = Fail(@, 500)]
  /\ UNCHANGED <<users, subjects, nextSubject, nextWeek, dash, progress, now, stu, accounts, calc, app>>

\* the route without its authorization block
PutAdminWeeksNoAuth(r, token, id, body, ok) ==
  /\ reqs[r].pc = "idle"
  /\ LET q == NewReq("updateWeek", token, id)
     IN reqs' = [reqs EXCEPT ![r] = [q EXCEPT !.pc = "scan", !.todo = <<body>>]]
  /\ UNCHANGED <<users, subjects, weeks, nextSubject, nextWeek, dash, progress, now, stu, accounts, calc, app>>

\* PUT /admin/weeks/:id up to the scan; the body is kept in todo[1]
PutAdminWeeks(r, token, id, body, ok) ==
  /\ reqs[r].pc = "idle"
  /\ LET q == NewReq("updateWeek", token, id)
         a == AuthAdmin(token, ok)
     IN reqs' = [reqs EXCEPT ![r] =
                   IF a # 0 THEN Reject(q, a)
                   ELSE [q EXCEPT !.pc = "scan", !.todo = <<body>>]]
  /\ UNCHANGED <<users, subjects, weeks, nextSubject, nextWeek, dash, progress, now, stu, accounts, calc, app>>

\* const allWeeks = await kv.getByPrefix('weeks:'); find; 404
PutAdminWeeksScan(r, ok) ==
  /\ reqs[r].op = "updateWeek" /\ reqs[r].pc = "scan"
  /\ IF ok
       THEN \E o \in ScanOrders(DOMAIN weeks) :
              LET week == find(Values(weeks, o), reqs[r].id)
              IN reqs' = [reqs EXCEPT ![r] =
                    IF week = NoWeek THEN Fail(@, 404)
                    ELSE [@ EXCEPT !.pc = "set", !.found = week]]
       ELSE reqs' = [reqs EXCEPT ![r] = Fail(@, 500)]
  /\ UNCHANGED <<users, subjects, weeks, nextSubject, nextWeek, dash, progress, now, stu, accounts, calc, app>>

\* updatedWeek = { ...week, ...updates }; await kv.set(...); respond with it
PutAdminWeeksSet(r, ok) ==
  /\ reqs[r].op = "updateWeek" /\ reqs[r].pc = "set"
  /\ LET updatedWeek == Merge(reqs[r].found, reqs[r].todo[1])
     IN IF ok
          THEN /\ weeks' = kvSet(weeks, <<reqs[r].found.subjectId, reqs[r].id>>, updatedWeek)
               /\ reqs' = [reqs EXCEPT ![r] = Reply([@ EXCEPT !.found = updatedWeek], 200)]
          ELSE /\ weeks' = weeks
               /\ reqs' = [reqs EXCEPT ![r] = Fail(@, 500)]
  /\ UNCHANGED <<users, subjects, nextSubject, nextWeek, dash, progress, now, stu, accounts, calc, app>>

\* DELETE /admin/weeks/:id up to the scan
DeleteAdminWeeks(r, token, id, ok) ==
  /\ reqs[r].pc = "idle"
  /\ LET q == NewReq("deleteWeek", token, id)
         a == AuthAdmin(token, ok)
     IN reqs' = [reqs EXCEPT ![r] =
                   IF a # 0 THEN Reject(q, a) ELSE [q EXCEPT !.pc = "scan"]]
  /\ UNCHANGED <<users, subjects, weeks, nextSubject, nextWeek, dash, progress, now, stu, accounts, calc, app>>

\* const allWeeks = await kv.getByPrefix('weeks:'); find; 404
DeleteAdminWeeksScan(r, ok) ==
  /\ reqs[r].op = "deleteWeek" /\ reqs[r].pc = "scan"
  /\ IF ok
       THEN \E o \in ScanOrders(DOMAIN weeks) :
              LET week == find(Values(weeks, o), reqs[r].id)
              IN reqs' = [reqs EXCEPT ![r] =
                    IF week = NoWeek THEN Fail(@, 404)
                    ELSE [@ EXCEPT !.pc = "del", !.found = week]]
       ELSE reqs' = [reqs EXCEPT ![r] = Fail(@, 500)]
  /\ UNCHANGED <<users, subjects, weeks, nextSubject, nextWeek, dash, progress, now, stu, accounts, calc, app>>

\* await kv.del(`weeks:${week.subjectId}:${weekId}`)
DeleteAdminWeeksDel(r, ok) ==
  /\ reqs[r].op = "deleteWeek" /\ reqs[r].pc = "del"
  /\ IF ok
       THEN /\ weeks' = kvDel(weeks, <<reqs[r].found.subjectId, reqs[r].id>>)
            /\ reqs' = [reqs EXCEPT ![r] = Reply(@, 200)]
       ELSE /\ weeks' = weeks
            /\ reqs' = [reqs EXCEPT ![r] = Fail(@, 500)]
  /\ UNCHANGED <<users, subjects, nextSubject, nextWeek, dash, progress, now, stu, accounts, calc, app>>

\* a sort that puts a week before the weeks of the same weekNumber
RECURSIVE InsertBeforeTies(_, _)
InsertBeforeTies(sorted, w) ==
  IF sorted = <<>> THEN <<w>>
  ELSE IF Head(sorted).weekNumber < w.weekNumber
    THEN <<Head(sorted)>> \o InsertBeforeTies(Tail(sorted), w)
  ELSE <<w>> \o sorted

\* weeks.sort((a, b) => a.weekNumber - b.weekNumber): stable insertion
RECURSIVE Insert(_, _)
Insert(sorted, w) ==
  IF sorted = <<>> THEN <<w>>
  ELSE IF Head(sorted).weekNumber <= w.weekNumber
    THEN <<Head(sorted)>> \o Insert(Tail(sorted), w)
  ELSE <<w>> \o sorted

RECURSIVE sortByWeekNumber(_)
sortByWeekNumber(list) ==
  IF list = <<>> THEN <<>>
  ELSE Insert(sortByWeekNumber(SubSeq(list, 1, Len(list) - 1)), list[Len(list)])

\* GET /weeks/:subjectId: const weeks = await kv.getByPrefix(`weeks:${subjectId}:`)
GetWeeks(r, subjectId, ok) ==
  /\ reqs[r].pc = "idle"
  /\ LET q == NewReq("getWeeks", "none", subjectId)
     IN IF ok
          THEN \E o \in ScanOrders({k \in DOMAIN weeks : k[1] = subjectId}) :
                 reqs' = [reqs EXCEPT ![r] = [q EXCEPT !.pc = "sort", !.list = Values(weeks, o)]]
          ELSE reqs' = [reqs EXCEPT ![r] = Fail(q, 500)]
  /\ UNCHANGED <<users, subjects, weeks, nextSubject, nextWeek, dash, progress, now, stu, accounts, calc, app>>

\* weeks.sort(...); return c.json({ weeks })
GetWeeksSort(r) ==
  /\ reqs[r].op = "getWeeks" /\ reqs[r].pc = "sort"
  /\ reqs' = [reqs EXCEPT ![r] = Reply([@ EXCEPT !.list = sortByWeekNumber(@)], 200)]
  /\ UNCHANGED <<users, subjects, weeks, nextSubject, nextWeek, dash, progress, now, stu, accounts, calc, app>>

\* the caller has received the response
Receive(r) ==
  /\ reqs[r].pc = "done"
  /\ reqs' = [reqs EXCEPT ![r] = Idle]
  /\ UNCHANGED <<users, subjects, weeks, nextSubject, nextWeek, dash, progress, now, stu, accounts, calc, app>>

\* requests interleave; the bodies are the ones the dashboards send
Next ==
  \E r \in Slots :
       \/ \E t \in Tokens, b \in SubjectBodies, ok \in BOOLEAN :
             nextSubject <= MaxSubjects /\ PostAdminSubjects(r, t, b, ok)
       \/ \E ok \in BOOLEAN : PostAdminSubjectsSet(r, ok)
       \/ \E t \in Tokens, i \in 1..MaxSubjects, ok \in BOOLEAN : DeleteAdminSubjects(r, t, i, ok)
       \/ \E ok \in BOOLEAN : DeleteSubjectKey(r, ok)
       \/ \E ok \in BOOLEAN : DeleteSubjectScan(r, ok)
       \/ \E ok \in BOOLEAN : DeleteSubjectWeek(r, ok)
       \/ \E t \in Tokens, b \in WeekBodies(1..MaxSubjects, {<<>>}), ok \in BOOLEAN :
             nextWeek <= MaxWeeks /\ PostAdminWeeks(r, t, b, ok)
       \/ \E ok \in BOOLEAN : PostAdminWeeksSet(r, ok)
       \/ \E t \in Tokens, i \in 1..MaxWeeks, b \in UpdateBodies, ok \in BOOLEAN :
             PutAdminWeeks(r, t, i, b, ok)
       \/ \E ok \in BOOLEAN : PutAdminWeeksScan(r, ok)
       \/ \E ok \in BOOLEAN : PutAdminWeeksSet(r, ok)
       \/ \E t \in Tokens, i \in 1..MaxWeeks, ok \in BOOLEAN : DeleteAdminWeeks(r, t, i, ok)
       \/ \E ok \in BOOLEAN : DeleteAdminWeeksScan(r, ok)
       \/ \E ok \in BOOLEAN : DeleteAdminWeeksDel(r, ok)
       \/ Receive(r)

Spec == Init /\ [][Next]_vars

\* ------------------------------------------------------- claims under Spec
IsAdminToken(token) ==
  /\ getUser(token) \in DOMAIN users
  /\ users[getUser(token)].role = "admin"

\* C1: a request to an admin route whose token is missing or rejected is
\* answered 401; one whose token is valid but whose profile is absent or not
\* admin is answered 403 (500 when the profile read itself throws); such a
\* caller is never answered 400, 404 or success.
AdminGate ==
  \A r \in Slots :
    reqs[r].pc = "done" =>
      LET t == reqs[r].token
          st == reqs[r].status
      IN /\ (t = "none" \/ getUser(t) = "") => st = 401
         /\ (getUser(t) # "" /\ ~IsAdminToken(t)) => st \in {403, 500}
         /\ ~IsAdminToken(t) => st \notin {200, 400, 404}

\* an account without a profile has been answered 403 while a week is stored
\* that a PUT or DELETE of it would have found
AdminGateWitness ==
  \E r \in Slots :
    /\ reqs[r].pc = "done" /\ reqs[r].token = "tokN" /\ reqs[r].status = 403
    /\ DOMAIN weeks # {}

\* C2: every step that changes a subjects: or weeks: key belongs to a
\* request whose bearer token resolves to a stored profile with role admin.
AdminOnlyWrites ==
  [][(subjects' # subjects \/ weeks' # weeks) =>
       \E r \in Slots : reqs'[r] # reqs[r] /\ IsAdminToken(reqs[r].token)]_vars

\* a student's request has been rejected while an admin's subject and week
\* are stored
AdminOnlyWritesWitness ==
  /\ DOMAIN subjects # {} /\ DOMAIN weeks # {}
  /\ \E r \in Slots : reqs[r].pc = "done" /\ reqs[r].token = "tokS" /\ reqs[r].status = 403

\* requests are served one at a time; the bodies are arbitrary JSON of an
\* API caller, and the public GET routes are called as well
NextSeq ==
     \/ \E t \in {"tokA", "tokS"}, b \in SubjectBodies, ok \in BOOLEAN :
           nextSubject <= SeqSubjects /\ PostAdminSubjects(1, t, b, ok)
     \/ \E ok \in BOOLEAN : PostAdminSubjectsSet(1, ok)
     \/ \E ok \in BOOLEAN : GetSubjects(1, ok)
     \/ \E t \in {"tokA", "tokS"}, i \in 1..SeqSubjects, ok \in BOOLEAN : DeleteAdminSubjects(1, t, i, ok)
     \/ \E ok \in BOOLEAN : DeleteSubjectKey(1, ok)
     \/ \E ok \in BOOLEAN : DeleteSubjectScan(1, ok)
     \/ \E ok \in BOOLEAN : DeleteSubjectWeek(1, ok)
     \/ \E t \in {"tokA", "tokS"}, b \in WeekBodies(1..SeqSubjects, {<<>>, <<BlankLink>>}), ok \in BOOLEAN :
           nextWeek <= SeqWeeks /\ PostAdminWeeks(1, t, b, ok)
     \/ \E ok \in BOOLEAN : PostAdminWeeksSet(1, ok)
     \/ \E t \in {"tokA", "tokS"}, i \in 1..SeqWeeks, b \in SeqUpdateBodies, ok \in BOOLEAN :
           PutAdminWeeks(1, t, i, b, ok)
     \/ \E ok \in BOOLEAN : PutAdminWeeksScan(1, ok)
     \/ \E ok \in BOOLEAN : PutAdminWeeksSet(1, ok)
     \/ \E t \in {"tokA", "tokS"}, i \in 1..(SeqWeeks + 1), ok \in BOOLEAN : DeleteAdminWeeks(1, t, i, ok)
     \/ \E ok \in BOOLEAN : DeleteAdminWeeksScan(1, ok)
     \/ \E ok \in BOOLEAN : DeleteAdminWeeksDel(1, ok)
     \/ \E i \in 1..SeqSubjects, ok \in BOOLEAN : GetWeeks(1, i, ok)
     \/ GetWeeksSort(1)
     \/ Receive(1)

SpecSeq == Init /\ [][NextSeq]_vars

\* ---------------------------------------------------- claims under SpecSeq
\* C3: a DELETE /admin/subjects/:id that runs alone leaves the subjects and
\* the weeks of other subjects unchanged in each of its steps, and when it
\* has answered success the subject is gone and no week is stored under its
\* namespace.
DeleteSubjectCascades ==
  [][(reqs[1].op = "deleteSubject" /\ reqs[1].pc \in {"delSubject", "scan", "delWeeks"}) =>
       LET S == reqs[1].id
       IN /\ \A k \in DOMAIN subjects \ {S} : k \in DOMAIN subjects' /\ subjects'[k] = subjects[k]
          /\ \A k \in DOMAIN weeks : k[1] # S => k \in DOMAIN weeks' /\ weeks'[k] = weeks[k]
          /\ (reqs'[1].pc = "done" /\ reqs'[1].status = 200) =>
                /\ S \notin DOMAIN subjects'
                /\ \A k \in DOMAIN weeks' : k[1] # S]_vars

\* C4: every week returned by GET /weeks/:subjectId names a subject that is
\* present in the store.
NoOrphanObservable ==
  (reqs[1].op = "getWeeks" /\ reqs[1].pc = "done" /\ reqs[1].status = 200) =>
    \A i \in 1..Len(reqs[1].list) : reqs[1].list[i].subjectId \in DOMAIN subjects

\* C5: the kv.set of a successful POST /admin/subjects adds one subject
\* under an id that no stored subject carried, lists it exactly once and
\* leaves every subject listed before unchanged.
CreateSubjectListedOnce ==
  [][(reqs[1].op = "createSubject" /\ reqs[1].pc = "set" /\ reqs'[1].status = 200) =>
       LET new == reqs'[1].found
       IN /\ \A k \in DOMAIN subjects : subjects[k].id # new.id
          /\ Cardinality({k \in DOMAIN subjects' : subjects'[k].id = new.id}) = 1
          /\ \E k \in DOMAIN subjects' : subjects'[k] = new
          /\ \A k \in DOMAIN subjects : k \in DOMAIN subjects' /\ subjects'[k] = subjects[k]]_vars

\* a second subject has been created next to a stored one
CreateSubjectListedOnceWitness ==
  /\ reqs[1].op = "createSubject" /\ reqs[1].pc = "done" /\ reqs[1].status = 200
  /\ Cardinality(DOMAIN subjects) = 2

\* String.prototype.trim() leaves nothing of the url
IsBlank(url) == trim(url) = <<>>

LinkFields == {"videoLinks", "audioLinks", "pdfLinks"}

\* C9: no stored week holds a content link whose url is empty or
\* whitespace-only.
NoBlankLinkStored ==
  \A k \in DOMAIN weeks : \A f \in LinkFields :
    \A i \in 1..Len(weeks[k][f]) : ~IsBlank(weeks[k][f][i].url)

\* C10: with requests served one at a time, the kv.set of an admin's PUT
\* /admin/weeks/:id writes the week that was stored under that id with every
\* field of the payload replaced and every other field kept, and the response
\* carries exactly the week written.
PutStoresMerge ==
  [][(reqs[1].op = "updateWeek" /\ reqs[1].pc = "set" /\ reqs'[1].status = 200) =>
       LET key == <<reqs[1].found.subjectId, reqs[1].id>>
           old == reqs[1].found
           upd == reqs[1].todo[1]
       IN /\ \E k \in DOMAIN weeks : weeks[k] = old /\ old.id = reqs[1].id
          /\ key \in DOMAIN weeks'
          /\ DOMAIN weeks'[key] = DOMAIN old \cup DOMAIN upd
          /\ \A f \in DOMAIN upd : weeks'[key][f] = upd[f]
          /\ \A f \in DOMAIN old \ DOMAIN upd : weeks'[key][f] = old[f]
          /\ reqs'[1].found = weeks'[key]]_vars

\* an update of videoLinks alone has been answered with the stored week,
\* which still has the title and the week number it was created with
PutStoresMergeWitness ==
  /\ reqs[1].op = "updateWeek" /\ reqs[1].pc = "done" /\ reqs[1].status = 200
  /\ reqs[1].found.videoLinks = <<BlankLink>>
  /\ reqs[1].found.title = "t1" /\ reqs[1].found.weekNumber = 1
  /\ <<reqs[1].found.subjectId, reqs[1].id>> \in DOMAIN weeks
  /\ weeks[<<reqs[1].found.subjectId, reqs[1].id>>] = reqs[1].found

\* C11: an admin's DELETE /admin/weeks/:id answers 404 and changes nothing
\* when no stored week has that id; when one has, its scan does not answer
\* 404, and once it has answered success no stored week has that id and
\* every week with another id is stored as before.
DeleteWeekRemoves ==
  [][(reqs[1].op = "deleteWeek" /\ reqs[1].pc \in {"scan", "del"}) =>
       LET id == reqs[1].id
           has == \E k \in DOMAIN weeks : weeks[k].id = id
       IN /\ weeks' # weeks => reqs'[1].status = 200
          /\ reqs'[1].status = 404 => ~has
          /\ (~has /\ reqs'[1].status # 500) => reqs'[1].status = 404
          /\ reqs'[1].status = 200 =>
               /\ \A k \in DOMAIN weeks' : weeks'[k].id # id
               /\ \A k \in DOMAIN weeks :
                    weeks[k].id # id => k \in DOMAIN weeks' /\ weeks'[k] = weeks[k]]_vars

\* C25: the week stored under weeks:<S>:<W> has subjectId = S and id = W, so
\* no two stored weeks carry the same id and the key the handlers rebuild
\* from a week's own fields is the key it is stored under.
WeekKeyMatchesWeek ==
  \A k \in DOMAIN weeks : weeks[k].subjectId = k[1] /\ weeks[k].id = k[2]

\* -------------------------------------------------------------- dashboards
\* number of weeks in the store the dashboards load from
LoadWeeks == 2

\* a legacy link is a bare string, kept here as [str |-> url]
IsString(item) == "str" \in DOMAIN item

\* normalizeContentLinks that rebuilds every element with an empty title
normalizeContentLinksNoTitle(links) ==
  [i \in 1..Len(links) |->
     [url |-> IF IsString(links[i]) THEN links[i].str ELSE links[i].url, title |-> ""]]

\* AdminDashboard normalizeContentLinks
normalizeContentLinks(links) ==
  [i \in 1..Len(links) |->
     IF IsString(links[i]) THEN [url |-> links[i].str, title |-> ""] ELSE links[i]]

\* links.filter(l => l.url.trim())
filterLinks(links) == SelectSeq(links, LAMBDA l : trim(l.url) # <<>>)

EmptyLink == [url |-> <<>>, title |-> ""]

\* AdminDashboard editWeek: the form the dialog opens with
editWeek(week) ==
  [weekNumber |-> week.weekNumber,
   title |-> week.title,
   description |-> IF "description" \in DOMAIN week THEN week.description ELSE "",
   published |-> week.published,
   videoLinks |-> IF normalizeContentLinks(week.videoLinks) # <<>>
                    THEN normalizeContentLinks(week.videoLinks) ELSE <<EmptyLink>>,
   audioLinks |-> IF normalizeContentLinks(week.audioLinks) # <<>>
                    THEN normalizeContentLinks(week.audioLinks) ELSE <<EmptyLink>>,
   pdfLinks |-> IF normalizeContentLinks(week.pdfLinks) # <<>>
                    THEN normalizeContentLinks(week.pdfLinks) ELSE <<EmptyLink>>,
   questions |-> week.questions]

\* the weekData that createOrUpdateWeek sends for a form
weekData(weekForm, subjectId) ==
  Merge(weekForm, [subjectId |-> subjectId,
                   videoLinks |-> filterLinks(weekForm.videoLinks),
                   audioLinks |-> filterLinks(weekForm.audioLinks),
                   pdfLinks |-> filterLinks(weekForm.pdfLinks)])

\* useEffect on selectedSubject: loadWeeks(subjectId) calls fetch
loadWeeks(c, subjectId) ==
  /\ dash[c].call = "none"
  /\ dash' = [dash EXCEPT ![c].call = "loadWeeks", ![c].id = subjectId]
  /\ UNCHANGED <<server, stu, calc, app>>

\* data.weeks || []: the weeks of a response, none in an error response
dataWeeks(q) == IF q.status = 200 THEN q.list ELSE <<>>

\* loadWeeks without its filter on published
StudentLoadWeeksDoneUnfiltered(c) ==
  /\ dash[c].call = "loadWeeks" /\ reqs[c].pc = "done"
  /\ dash' = [dash EXCEPT ![c].call = "none",
                           ![c].weeks = sortByWeekNumber(dataWeeks(reqs[c]))]
  /\ reqs' = [reqs EXCEPT ![c] = Idle]
  /\ UNCHANGED <<users, subjects, weeks, nextSubject, nextWeek, progress, now, stu, accounts, calc, app>>

\* StudentDashboard loadWeeks after the fetch: published weeks only, sorted
StudentLoadWeeksDone(c) ==
  /\ dash[c].call = "loadWeeks" /\ reqs[c].pc = "done"
  /\ dash' = [dash EXCEPT ![c].call = "none",
                           ![c].weeks = sortByWeekNumber(
                              SelectSeq(dataWeeks(reqs[c]), LAMBDA w : w.published))]
  /\ reqs' = [reqs EXCEPT ![c] = Idle]
  /\ UNCHANGED <<users, subjects, weeks, nextSubject, nextWeek, progress, now, stu, accounts, calc, app>>

\* AdminDashboard loadWeeks after the fetch: all weeks, sorted
AdminLoadWeeksDone(c) ==
  /\ dash[c].call = "loadWeeks" /\ reqs[c].pc = "done"
  /\ dash' = [dash EXCEPT ![c].call = "none",
                           ![c].weeks = sortByWeekNumber(dataWeeks(reqs[c]))]
  /\ reqs' = [reqs EXCEPT ![c] = Idle]
  /\ UNCHANGED <<users, subjects, weeks, nextSubject, nextWeek, progress, now, stu, accounts, calc, app>>

\* AdminDashboard togglePublish(week) up to the fetch
togglePublish(c, i) ==
  /\ dash[c].call = "none"
  /\ i \in 1..Len(dash[c].weeks)
  /\ LET week == dash[c].weeks[i]
     IN dash' = [dash EXCEPT ![c].call = "togglePublish", ![c].id = week.id,
                             ![c].body = Merge(week, [published |-> ~week.published])]
  /\ UNCHANGED <<server, stu, calc, app>>

\* AdminDashboard editWeek(week), a new title typed, createOrUpdateWeek up
\* to the fetch
createOrUpdateWeek(c, i, title) ==
  /\ dash[c].call = "none"
  /\ i \in 1..Len(dash[c].weeks)
  /\ LET week == dash[c].weeks[i]
         weekForm == [editWeek(week) EXCEPT !.title = title]
     IN dash' = [dash EXCEPT ![c].call = "updateWeek", ![c].id = week.id,
                             ![c].body = weekData(weekForm, week.subjectId)]
  /\ UNCHANGED <<server, stu, calc, app>>

\* togglePublish and createOrUpdateWeek after the fetch: if (response.ok)
\* loadWeeks(selectedSubject.id)
PutDone(c, subjectId) ==
  /\ dash[c].call \in {"togglePublish", "updateWeek"} /\ reqs[c].pc = "done"
  /\ dash' = [dash EXCEPT ![c].call = IF reqs[c].status = 200 THEN "loadWeeks" ELSE "none",
                           ![c].id = IF reqs[c].status = 200 THEN subjectId ELSE 0,
                           ![c].body = NoWeek]
  /\ reqs' = [reqs EXCEPT ![c] = Idle]
  /\ UNCHANGED <<users, subjects, weeks, nextSubject, nextWeek, progress, now, stu, accounts, calc, app>>

\* a stored week as POST /admin/weeks writes it
StoredWeek(subjectId, weekId, weekNumber, published) ==
  [id |-> weekId, subjectId |-> subjectId, weekNumber |-> weekNumber,
   title |-> "t1", videoLinks |-> <<>>, audioLinks |-> <<>>, pdfLinks |-> <<>>,
   questions |-> <<>>, published |-> published, createdAt |-> weekId]

StoredSubject(subjectId) ==
  [id |-> subjectId, name |-> "n1", description |-> "", createdAt |-> subjectId]

\* the stores with up to LoadWeeks weeks under subjects 1 and 2 (0: the week
\* does not exist) that
\* POST /admin/subjects, POST /admin/weeks and PUT /admin/weeks/:id leave
LoadStores ==
  LET choices == [1..LoadWeeks -> {0, 1, 2} \X {1, 2} \X BOOLEAN]
      keys(ch) == { <<ch[w][1], w>> : w \in {v \in 1..LoadWeeks : ch[v][1] # 0} }
  IN { [k \in keys(ch) |-> StoredWeek(k[1], k[2], ch[k[2]][2], ch[k[2]][3])] : ch \in choices }

InitLoad ==
  /\ users = InitUsers
  /\ subjects = [i \in {1, 2} |-> StoredSubject(i)]
  /\ weeks \in LoadStores
  /\ reqs = [r \in Conns |-> Idle]
  /\ nextSubject = 3
  /\ nextWeek = LoadWeeks + 1
  /\ dash = [c \in Conns |-> NoDash]
  /\ progress = <<>>
  /\ now = 1
  /\ stu = NoStudent
  /\ accounts = InitAccounts
  /\ calc = NoCalc
  /\ app = NoApp

\* the student dashboard (connection 0) and one admin dashboard (connection
\* 1) load the weeks of a subject
NextLoad ==
  \/ \E c \in {0, 1}, i \in {1, 2} : loadWeeks(c, i)
  \/ \E c \in {0, 1}, ok \in BOOLEAN :
        /\ dash[c].call = "loadWeeks"
        /\ GetWeeks(c, dash[c].id, ok)
  \/ \E c \in {0, 1} : GetWeeksSort(c)
  \/ StudentLoadWeeksDone(0)
  \/ AdminLoadWeeksDone(1)

SpecLoad == InitLoad /\ [][NextLoad]_vars

InitDash ==
  /\ users = InitUsers
  /\ subjects = [i \in {1} |-> StoredSubject(i)]
  /\ weeks = [k \in {<<1, 1>>} |-> StoredWeek(1, 1, 1, FALSE)]
  /\ reqs = [r \in Conns |-> Idle]
  /\ nextSubject = 2
  /\ nextWeek = 2
  /\ dash = [c \in Conns |-> NoDash]
  /\ progress = <<>>
  /\ now = 1
  /\ stu = NoStudent
  /\ accounts = InitAccounts
  /\ calc = NoCalc
  /\ app = NoApp

\* the admin dashboards 1..MaxAdmins, all showing subject 1, load, publish
\* and retitle its week while the server serves their requests
NextDash ==
  \E c \in 1..MaxAdmins :
    \/ loadWeeks(c, 1)
    \/ \E ok \in BOOLEAN :
          /\ dash[c].call = "loadWeeks"
          /\ GetWeeks(c, dash[c].id, ok)
    \/ GetWeeksSort(c)
    \/ AdminLoadWeeksDone(c)
    \/ \E i \in 1..LoadWeeks : togglePublish(c, i)
    \/ \E i \in 1..LoadWeeks : createOrUpdateWeek(c, i, "t2")
    \/ \E ok \in BOOLEAN :
          /\ dash[c].call \in {"togglePublish", "updateWeek"}
          /\ PutAdminWeeks(c, "tokA", dash[c].id, dash[c].body, ok)
    \/ \E ok \in BOOLEAN : PutAdminWeeksScan(c, ok)
    \/ \E ok \in BOOLEAN : PutAdminWeeksSet(c, ok)
    \/ PutDone(c, 1)

SpecDash == InitDash /\ [][NextDash]_vars

\* --------------------------------------------------- claims under SpecLoad
\* the weeks stored under the namespace of subject S
WeeksOf(S) == { weeks[k] : k \in {j \in DOMAIN weeks : j[1] = S} }

Ascending(list) ==
  \A i, j \in 1..Len(list) : i < j => list[i].weekNumber <= list[j].weekNumber

\* C6: after a successful loadWeeks(S) the student dashboard holds exactly
\* the stored weeks of S that are published, each once, in ascending
\* weekNumber order, and the admin dashboard holds all stored weeks of S.
StudentSeesPublishedOnly ==
  [][/\ (dash[0].call = "loadWeeks" /\ reqs[0].status = 200 /\ dash'[0].call = "none") =>
          LET held == dash'[0].weeks
          IN /\ \A i \in 1..Len(held) : held[i].published = TRUE
             /\ { held[i] : i \in 1..Len(held) } = { w \in WeeksOf(dash[0].id) : w.published }
             /\ Len(held) = Cardinality({ w \in WeeksOf(dash[0].id) : w.published })
             /\ Ascending(held)
     /\ (dash[1].call = "loadWeeks" /\ reqs[1].status = 200 /\ dash'[1].call = "none") =>
          LET held == dash'[1].weeks
          IN /\ { held[i] : i \in 1..Len(held) } = WeeksOf(dash[1].id)
             /\ Len(held) = Cardinality(WeeksOf(dash[1].id))
             /\ Ascending(held)]_vars

\* both dashboards have loaded a subject with a published week 1 and an
\* unpublished week 2 whose weekNumber is the lower one
StudentSeesPublishedOnlyWitness ==
  /\ dash[0].call = "none" /\ dash[1].call = "none" /\ dash[0].id = dash[1].id
  /\ Len(dash[0].weeks) = 1 /\ Len(dash[1].weeks) = 2
  /\ dash[1].weeks[1].id = 2 /\ dash[1].weeks[1].published = FALSE
  /\ dash[1].weeks[1].weekNumber < dash[1].weeks[2].weekNumber
  /\ dash[0].weeks[1] = dash[1].weeks[2]
  /\ WeeksOf(dash[0].id) = {dash[1].weeks[1], dash[1].weeks[2]}

\* position of week w in a list that holds it
Pos(list, w) == CHOOSE i \in 1..Len(list) : list[i] = w

\* C12: GET /weeks/:subjectId answers with exactly the weeks stored under
\* the subject's namespace, published or not, each once, in ascending
\* weekNumber order, weeks of equal weekNumber in the order the scan
\* returned them.
GetWeeksSortedStable ==
  [][\A c \in {0, 1} :
       (reqs[c].op = "getWeeks" /\ reqs[c].pc = "sort" /\ reqs'[c].pc = "done") =>
         LET scan == reqs[c].list
             out == reqs'[c].list
         IN /\ reqs'[c].status = 200
            /\ { out[i] : i \in 1..Len(out) } = WeeksOf(reqs[c].id)
            /\ Len(out) = Cardinality(WeeksOf(reqs[c].id))
            /\ Ascending(out)
            /\ \A i, j \in 1..Len(scan) :
                 (i < j /\ scan[i].weekNumber = scan[j].weekNumber) =>
                   Pos(out, scan[i]) < Pos(out, scan[j])]_vars

\* a response lists two weeks of the same weekNumber, the unpublished week 2
\* before week 1
GetWeeksSortedStableWitness ==
  \E c \in {0, 1} :
    /\ reqs[c].op = "getWeeks" /\ reqs[c].pc = "done" /\ reqs[c].status = 200
    /\ Len(reqs[c].list) = 2
    /\ reqs[c].list[1].id = 2 /\ reqs[c].list[2].id = 1
    /\ reqs[c].list[1].weekNumber = reqs[c].list[2].weekNumber
    /\ reqs[c].list[1].published = FALSE /\ reqs[c].list[2].published = TRUE

\* --------------------------------------------------- claims under SpecDash
\* the kv.set of a togglePublish request of dashboard c that succeeds and
\* that writes over the week the request has read
ToggleWrites(c) ==
  /\ dash[c].call = "togglePublish"
  /\ reqs[c].pc = "set" /\ reqs'[c].status = 200
  /\ <<reqs[c].found.subjectId, reqs[c].id>> \in DOMAIN weeks
  /\ weeks[<<reqs[c].found.subjectId, reqs[c].id>>] = reqs[c].found

\* C7: every togglePublish flips the stored published flag of its week (so
\* that two successive ones restore it).
ToggleFlipsPublished ==
  [][\A c \in 1..MaxAdmins :
       ToggleWrites(c) =>
         LET key == <<reqs[c].found.subjectId, reqs[c].id>>
         IN weeks'[key].published = ~weeks[key].published]_vars

\* C8: a togglePublish leaves every stored field of its week other than
\* published as it was in the store when the request was processed.
ToggleKeepsOtherFields ==
  [][\A c \in 1..MaxAdmins :
       ToggleWrites(c) =>
         LET key == <<reqs[c].found.subjectId, reqs[c].id>>
         IN \A f \in DOMAIN weeks[key] \ {"published"} :
              f \in DOMAIN weeks'[key] /\ weeks'[key][f] = weeks[key][f]]_vars

\* ---------------------------------------------------------------- progress
\* number of weeks a progress record may name, and of POST /progress
\* requests the clock lets through
ProgWeeks == 2
MaxPosts == 2

\* bodies of POST /progress: completed true, false or absent, and a userId
\* field that the handler does not read
ProgressBodies ==
  [weekId : 1..ProgWeeks, completed : {"true", "false", "undefined"}, userId : {"", "a"}]

\* the handler with the owner of the record taken from the body
PostProgressBodyUser(r, token, body) ==
  /\ reqs[r].pc = "idle"
  /\ LET q == NewReq("saveProgress", token, body.weekId)
     IN reqs' = [reqs EXCEPT ![r] =
          IF token = "none" \/ getUser(token) = "" THEN Fail(q, 401)
          ELSE [q EXCEPT !.pc = "set", !.todo = <<body>>,
                         !.found = [userId |-> IF body.userId # "" THEN body.userId
                                               ELSE getUser(token),
                                    weekId |-> body.weekId,
                                    completed |-> (body.completed = "true"),
                                    lastAccessed |-> now]]]
  /\ now' = now + 1
  /\ UNCHANGED <<users, subjects, weeks, nextSubject, nextWeek, dash, progress, stu, accounts, calc, app>>

\* POST /progress up to the kv.set
PostProgress(r, token, body) ==
  /\ reqs[r].pc = "idle"
  /\ LET q == NewReq("saveProgress", token, body.weekId)
     IN reqs' = [reqs EXCEPT ![r] =
          IF token = "none" \/ getUser(token) = "" THEN Fail(q, 401)
          ELSE [q EXCEPT !.pc = "set", !.todo = <<body>>,
                         !.found = [userId |-> getUser(token),
                                    weekId |-> body.weekId,
                                    completed |-> (body.completed = "true"),
                                    lastAccessed |-> now]]]
  /\ now' = now + 1
  /\ UNCHANGED <<users, subjects, weeks, nextSubject, nextWeek, dash, progress, stu, accounts, calc, app>>

\* the kv.set under a key made of the user and the time of the call
PostProgressSetByTime(r, ok) ==
  /\ reqs[r].op = "saveProgress" /\ reqs[r].pc = "set"
  /\ IF ok
       THEN /\ progress' = kvSet(progress, <<reqs[r].found.userId, 10 + reqs[r].found.lastAccessed>>,
                                 reqs[r].found)
            /\ reqs' = [reqs EXCEPT ![r] = Reply(@, 200)]
       ELSE /\ progress' = progress
            /\ reqs' = [reqs EXCEPT ![r] = Fail(@, 500)]
  /\ UNCHANGED <<users, subjects, weeks, nextSubject, nextWeek, dash, now, stu, accounts, calc, app>>

\* await kv.set(`progress:${user.id}:${weekId}`, progress)
PostProgressSet(r, ok) ==
  /\ reqs[r].op = "saveProgress" /\ reqs[r].pc = "set"
  /\ IF ok
       THEN /\ progress' = kvSet(progress, <<reqs[r].found.userId, reqs[r].found.weekId>>,
                                 reqs[r].found)
            /\ reqs' = [reqs EXCEPT ![r] = Reply(@, 200)]
       ELSE /\ progress' = progress
            /\ reqs' = [reqs EXCEPT ![r] = Fail(@, 500)]
  /\ UNCHANGED <<users, subjects, weeks, nextSubject, nextWeek, dash, now, stu, accounts, calc, app>>

\* GET /progress up to the scan
GetProgress(r, token) ==
  /\ reqs[r].pc = "idle"
  /\ LET q == NewReq("getProgress", token, 0)
     IN reqs' = [reqs EXCEPT ![r] =
          IF token = "none" \/ getUser(token) = "" THEN Fail(q, 401)
          ELSE [q EXCEPT !.pc = "scan"]]
  /\ UNCHANGED <<users, subjects, weeks, nextSubject, nextWeek, dash, progress, now, stu, accounts, calc, app>>

\* const progress = await kv.getByPrefix(`progress:${user.id}:`)
GetProgressScan(r, ok) ==
  /\ reqs[r].op = "getProgress" /\ reqs[r].pc = "scan"
  /\ IF ok
       THEN \E o \in ScanOrders({k \in DOMAIN progress : k[1] = getUser(reqs[r].token)}) :
              reqs' = [reqs EXCEPT ![r] = Reply([@ EXCEPT !.list = Values(progress, o)], 200)]
       ELSE reqs' = [reqs EXCEPT ![r] = Fail(@, 500)]
  /\ UNCHANGED <<users, subjects, weeks, nextSubject, nextWeek, dash, progress, now, stu, accounts, calc, app>>

\* the progress routes, served one request at a time, called by anyone
NextProgress ==
  \/ \E t \in Tokens \ {"tokN"}, b \in ProgressBodies : now <= MaxPosts /\ PostProgress(1, t, b)
  \/ \E ok \in BOOLEAN : PostProgressSet(1, ok)
  \/ \E t \in Tokens \ {"tokN"} : GetProgress(1, t)
  \/ \E ok \in BOOLEAN : GetProgressScan(1, ok)
  \/ Receive(1)

SpecProgress == Init /\ [][NextProgress]_vars

\* ----------------------------------------------- claims under SpecProgress
\* the stored progress records of user u for week w
RecordsOf(store, u, w) ==
  { k \in DOMAIN store : store[k].userId = u /\ store[k].weekId = w }

\* C13: after the kv.set of a successful POST /progress by user s for week
\* w the store holds exactly one record of s for w, and its completed value
\* is the one of that call (false when the body carries none).
ProgressLastWriteWins ==
  [][(reqs[1].op = "saveProgress" /\ reqs[1].pc = "set" /\ reqs'[1].status = 200) =>
       LET s == getUser(reqs[1].token)
           body == reqs[1].todo[1]
       IN /\ Cardinality(RecordsOf(progress', s, body.weekId)) = 1
          /\ \A k \in RecordsOf(progress', s, body.weekId) :
               progress'[k].completed = (body.completed = "true")]_vars

\* the second POST /progress of the run has left completed = true in the
\* only record of the student
ProgressLastWriteWinsWitness ==
  /\ reqs[1].op = "saveProgress" /\ reqs[1].pc = "done" /\ reqs[1].status = 200
  /\ DOMAIN progress = {<<"s", 1>>}
  /\ progress[<<"s", 1>>].completed = TRUE
  /\ progress[<<"s", 1>>].lastAccessed = 2

\* C14: a step changes only progress records under the key of the user its
\* request's token belongs to, with that user as userId, and a GET
\* /progress response lists exactly the stored records of the caller.
ProgressOwnedByCaller ==
  [][LET u == getUser(reqs[1].token)
     IN /\ DOMAIN progress \subseteq DOMAIN progress'
        /\ \A k \in DOMAIN progress' :
             (k \notin DOMAIN progress \/ progress'[k] # progress[k]) =>
               k[1] = u /\ progress'[k].userId = u
        /\ (reqs[1].op = "getProgress" /\ reqs[1].pc = "scan" /\ reqs'[1].status = 200) =>
             LET out == reqs'[1].list
             IN /\ \A i \in 1..Len(out) : out[i].userId = u
                /\ { out[i] : i \in 1..Len(out) } =
                     { progress[k] : k \in {j \in DOMAIN progress : progress[j].userId = u} }]_vars

\* the student has been sent its one record while the admin has a record too,
\* written by a request whose body named the admin as userId or not
ProgressOwnedByCallerWitness ==
  /\ reqs[1].op = "getProgress" /\ reqs[1].pc = "done" /\ reqs[1].status = 200
  /\ reqs[1].token = "tokS" /\ Len(reqs[1].list) = 1
  /\ \E k \in DOMAIN progress : progress[k].userId = "a"

\* ------------------------------------------------------- student dashboard
\* number of weeks the dashboard lists, of fetches it may have under way and
\* of questions of a week
StuWeeks == 1
StuFetches == 2
StuQuestions == 1

StuSlots == 0..(StuFetches - 1)

\* a slot of the dashboard with no fetch under way
FreeSlots == { c \in StuSlots : stu.calls[c].kind = "none" }

\* progressData.some(p => p.weekId === weekId && p.completed)
RECURSIVE isWeekCompleted(_, _)
isWeekCompleted(progressData, weekId) ==
  IF progressData = <<>> THEN FALSE
  ELSE IF Head(progressData).weekId = weekId /\ Head(progressData).completed THEN TRUE
  ELSE isWeekCompleted(Tail(progressData), weekId)

\* progressData.some(p => p.weekId === weekId)
RECURSIVE isWeekStarted(_, _)
isWeekStarted(progressData, weekId) ==
  IF progressData = <<>> THEN FALSE
  ELSE IF Head(progressData).weekId = weekId THEN TRUE
  ELSE isWeekStarted(Tail(progressData), weekId)

\* saveProgress(weekId, completed) up to its fetch, in slot c
saveProgress(c, weekId, completed) ==
  [stu.calls EXCEPT ![c] = [NoCall EXCEPT !.kind = "save", !.weekId = weekId,
                                          !.completed = completed]]

\* week card onClick: setSelectedWeek(week); first view saves completed false
StuOpenWeek(w) ==
  /\ stu.calls # <<>> /\ stu.selectedWeek = 0
  /\ IF ~isWeekStarted(stu.progressData, w)
       THEN \E c \in FreeSlots :
              stu' = [stu EXCEPT !.selectedWeek = w, !.calls = saveProgress(c, w, FALSE)]
       ELSE stu' = [stu EXCEPT !.selectedWeek = w]
  /\ UNCHANGED <<server, dash, calc, app>>

\* a radio whose onChange has no test of showResults
StuAnswerAlways(idx, optIdx) ==
  /\ stu.selectedWeek # 0
  /\ stu' = [stu EXCEPT !.answers =
               [i \in DOMAIN stu.answers \cup {idx} |->
                  IF i = idx THEN optIdx ELSE stu.answers[i]]]
  /\ UNCHANGED <<server, dash, calc, app>>

\* radio onChange: if (!showResults) setAnswers({ ...answers, [idx]: optIdx })
StuAnswer(idx, optIdx) ==
  /\ stu.selectedWeek # 0
  /\ stu' = IF ~stu.showResults
              THEN [stu EXCEPT !.answers =
                      [i \in DOMAIN stu.answers \cup {idx} |->
                         IF i = idx THEN optIdx ELSE stu.answers[i]]]
              ELSE stu
  /\ UNCHANGED <<server, dash, calc, app>>

\* handleSubmitQuiz; the button is disabled while answers is empty
StuSubmitQuiz ==
  /\ stu.selectedWeek # 0 /\ ~stu.showResults
  /\ DOMAIN stu.answers # {}
  /\ \E c \in FreeSlots :
       stu' = [stu EXCEPT !.showResults = TRUE,
                          !.calls = saveProgress(c, stu.selectedWeek, TRUE)]
  /\ UNCHANGED <<server, dash, calc, app>>

\* Try Again: setAnswers({}); setShowResults(false)
StuTryAgain ==
  /\ stu.selectedWeek # 0 /\ stu.showResults
  /\ stu' = [stu EXCEPT !.answers = <<>>, !.showResults = FALSE]
  /\ UNCHANGED <<server, dash, calc, app>>

\* Back: setSelectedWeek(null); setAnswers({}); setShowResults(false)
StuBack ==
  /\ stu.selectedWeek # 0
  /\ stu' = [stu EXCEPT !.selectedWeek = 0, !.answers = <<>>, !.showResults = FALSE]
  /\ UNCHANGED <<server, dash, calc, app>>

\* saveProgress after its fetch: loadProgress(), whatever the status
StuSaveDone(c) ==
  /\ stu.calls[c].kind = "save" /\ reqs[c].pc = "done"
  /\ stu' = [stu EXCEPT !.calls[c] = [NoCall EXCEPT !.kind = "load"]]
  /\ reqs' = [reqs EXCEPT ![c] = Idle]
  /\ UNCHANGED <<users, subjects, weeks, nextSubject, nextWeek, dash, progress, now, accounts, calc, app>>

\* loadProgress after its fetch: setProgressData(data.progress || [])
StuLoadDone(c) ==
  /\ stu.calls[c].kind = "load" /\ reqs[c].pc = "done"
  /\ stu' = [stu EXCEPT !.calls[c] = NoCall,
                        !.progressData = IF reqs[c].status = 200 THEN reqs[c].list ELSE <<>>]
  /\ reqs' = [reqs EXCEPT ![c] = Idle]
  /\ UNCHANGED <<users, subjects, weeks, nextSubject, nextWeek, dash, progress, now, accounts, calc, app>>

\* fetch rejects (the request or its response is lost): the catch block logs
StuFetchThrows(c) ==
  /\ stu.calls[c].kind \in {"save", "load", "weeks"} /\ reqs[c].pc \in {"idle", "done"}
  /\ stu' = [stu EXCEPT !.calls[c] = NoCall]
  /\ reqs' = [reqs EXCEPT ![c] = Idle]
  /\ UNCHANGED <<users, subjects, weeks, nextSubject, nextWeek, dash, progress, now, accounts, calc, app>>

\* the dashboard is mounted: useEffect calls loadProgress()
InitStudent ==
  /\ users = InitUsers
  /\ subjects = <<>>
  /\ weeks = <<>>
  /\ reqs = [r \in Conns |-> Idle]
  /\ nextSubject = 1
  /\ nextWeek = 1
  /\ dash = [c \in Conns |-> NoDash]
  /\ progress = <<>>
  /\ now = 1
  /\ stu = [NoStudent EXCEPT !.calls =
              [c \in StuSlots |-> IF c = 0 THEN [NoCall EXCEPT !.kind = "load"] ELSE NoCall]]
  /\ accounts = InitAccounts
  /\ calc = NoCalc
  /\ app = NoApp

\* the student uses the dashboard while the server serves its fetches
NextStudent ==
  \/ \E w \in 1..StuWeeks : StuOpenWeek(w)
  \/ \E idx \in 1..StuQuestions, optIdx \in {0, 1} : StuAnswer(idx, optIdx)
  \/ StuSubmitQuiz
  \/ StuTryAgain
  \/ StuBack
  \/ \E c \in StuSlots :
        \/ /\ stu.calls[c].kind = "save" /\ now <= MaxPosts
           /\ PostProgress(c, "tokS", [weekId |-> stu.calls[c].weekId,
                                       completed |-> IF stu.calls[c].completed THEN "true" ELSE "false",
                                       userId |-> ""])
        \/ \E ok \in BOOLEAN : PostProgressSet(c, ok)
        \/ stu.calls[c].kind = "load" /\ GetProgress(c, "tokS")
        \/ \E ok \in BOOLEAN : GetProgressScan(c, ok)
        \/ StuSaveDone(c)
        \/ StuLoadDone(c)
        \/ StuFetchThrows(c)

SpecStudent == InitStudent /\ [][NextStudent]_vars

\* ------------------------------------------------ claims under SpecStudent
\* C15: once a stored progress record of the student has completed = true,
\* no step of the student dashboard or of its requests makes it false or
\* removes it.
CompletedStays ==
  [][\A k \in DOMAIN progress :
       progress[k].completed => (k \in DOMAIN progress' /\ progress'[k].completed)]_vars

\* ------------------------------------------- functions of the dashboards
\* number of questions of a quiz
ScoreQuestions == 2

\* JavaScript values: a === b is equality of the tagged values
Undefined == [t |-> "undefined"]
Num(n) == [t |-> "number", v |-> n]
Str(s) == [t |-> "string", v |-> s]

\* the questions a stored week may hold: q.type is "mcq", "short_answer" or
\* absent; correctAnswer is optional
QuestionKinds ==
  [type : {"mcq", "undefined"}, correctAnswer : {Num(0), Num(1), Undefined}]
    \cup [type : {"short_answer"}, correctAnswer : {Undefined}]

\* question lists; ref is the identity of the object in the array
QuestionLists ==
  UNION { { [i \in 1..n |-> [ref |-> i, type |-> ks[i].type, correctAnswer |-> ks[i].correctAnswer]] :
              ks \in [1..n -> QuestionKinds] } : n \in 0..ScoreQuestions }

\* a question is rendered with radio buttons unless its type is short_answer
Widget(q) == IF q.type = "short_answer" THEN {Str("t")} ELSE {Num(0), Num(1)}

\* the answers object the inputs of a quiz can build: keys are array indices
AnswersOf(qs) ==
  UNION { { a \in [{i - 1 : i \in D} -> {Num(0), Num(1), Str("t")}] :
              \A i \in D : a[i - 1] \in Widget(qs[i]) } : D \in SUBSET (1..Len(qs)) }

\* answers[questionIndex]
answerAt(answers, questionIndex) ==
  IF questionIndex \in DOMAIN answers THEN answers[questionIndex] ELSE Undefined

\* selectedWeek.questions.findIndex(question => question === q)
RECURSIVE findIndex(_, _, _)
findIndex(questions, q, from) ==
  IF from > Len(questions) THEN -1
  ELSE IF questions[from].ref = q.ref THEN from - 1
  ELSE findIndex(questions, q, from + 1)

\* the forEach of calculateScore over mcqQuestions
RECURSIVE countCorrect(_, _, _)
countCorrect(mcqQuestions, questions, answers) ==
  IF mcqQuestions = <<>> THEN 0
  ELSE LET q == Head(mcqQuestions)
           questionIndex == findIndex(questions, q, 1)
       IN (IF answerAt(answers, questionIndex) = q.correctAnswer THEN 1 ELSE 0)
            + countCorrect(Tail(mcqQuestions), questions, answers)

\* calculateScore(): selectedWeek is NoWeek when no week is selected
calculateScore(selectedWeek, answers) ==
  IF selectedWeek = NoWeek THEN [correct |-> 0, total |-> 0]
  ELSE LET mcqQuestions == SelectSeq(selectedWeek.questions,
                                     LAMBDA q : q.type = "mcq" \/ q.type = "undefined")
       IN [correct |-> countCorrect(mcqQuestions, selectedWeek.questions, answers),
           total |-> Len(mcqQuestions)]

ScoreInputs ==
  { [fn |-> "calculateScore", done |-> FALSE, selectedWeek |-> NoWeek, answers |-> <<>>] }
    \cup UNION { { [fn |-> "calculateScore", done |-> FALSE,
                    selectedWeek |-> [id |-> 1, questions |-> qs], answers |-> a] :
                     a \in AnswersOf(qs) } : qs \in QuestionLists }

\* the results screen is rendered: calculateScore()
CalculateScore ==
  /\ calc.fn = "calculateScore" /\ ~calc.done
  /\ calc' = [selectedWeek |-> calc.selectedWeek, answers |-> calc.answers,
              fn |-> "calculateScore", done |-> TRUE,
              out |-> calculateScore(calc.selectedWeek, calc.answers)]
  /\ UNCHANGED <<server, dash, stu, app>>

\* number of links of a list that is normalized
NormLinks == 2

\* the elements a stored link list may hold: a bare string, { url, title },
\* and { url } without a title
LinkItems == { [str |-> GoodUrl], GoodLink, BlankLink, [url |-> GoodUrl] }

LinkInputs ==
  UNION { { [fn |-> "normalizeContentLinks", done |-> 0, links |-> l] :
              l \in [1..n -> LinkItems] } : n \in 0..NormLinks }

\* editWeek normalizes a stored list
NormalizeLinks ==
  /\ calc.fn = "normalizeContentLinks" /\ calc.done = 0
  /\ calc' = [fn |-> "normalizeContentLinks", done |-> 1, links |-> calc.links,
              out |-> normalizeContentLinks(calc.links)]
  /\ UNCHANGED <<server, dash, stu, app>>

\* editWeek normalizes the list it has normalized before
NormalizeAgain ==
  /\ calc.fn = "normalizeContentLinks" /\ calc.done = 1
  /\ calc' = [fn |-> "normalizeContentLinks", done |-> 2, links |-> calc.links,
              out |-> calc.out, again |-> normalizeContentLinks(calc.out)]
  /\ UNCHANGED <<server, dash, stu, app>>

\* ------------------------------------------------- ids of content links
\* a url is the sequence of its characters; a function that returns null
\* returns NoId, as no id it extracts is empty
NoId == <<>>

\* \w and [a-zA-Z0-9_-] over the characters that occur in the urls below
WordChars ==
  {"a", "b", "c", "d", "e", "f", "h", "i", "l", "m", "o", "p", "s", "t", "u", "v", "w", "x", "y",
   "A", "B", "Q", "0", "1", "_"}
IdChars == WordChars \cup {"-"}

\* the url from position p on
From(url, p) == SubSeq(url, p, Len(url))

\* a sequence of pattern elements matches the url at position p: "." is any
\* character, "\\w" a word character, anything else the character itself
MatchesAt(url, p, pat) ==
  /\ p + Len(pat) - 1 <= Len(url)
  /\ \A i \in 1..Len(pat) :
       \/ pat[i] = "."
       \/ pat[i] = "\\w" /\ url[p + i - 1] \in WordChars
       \/ pat[i] = url[p + i - 1]

\* the longest prefix of s whose characters are all in (keep = TRUE) or all
\* outside (keep = FALSE) the set chars: a greedy character class
RECURSIVE Run(_, _, _)
Run(s, chars, keep) ==
  IF s = <<>> \/ ((Head(s) \in chars) # keep) THEN <<>>
  ELSE <<Head(s)>> \o Run(Tail(s), chars, keep)

\* c? at the head of s: the rest of s
Optional(s, c) == IF s # <<>> /\ Head(s) = c THEN Tail(s) ELSE s

\* the alternatives (youtu.be\/)|(v\/)|(\/u\/\w\/)|(embed\/)|(watch\?)
YouTubeMarkers ==
  << <<"y", "o", "u", "t", "u", ".", "b", "e", "/">>,
     <<"v", "/">>,
     <<"/", "u", "/", "\\w", "/">>,
     <<"e", "m", "b", "e", "d", "/">>,
     <<"w", "a", "t", "c", "h", "?">> >>

\* the length an id must have: match[7].length === 11
YouTubeIdLength == 11

\* the end of the first alternative that matches at p, 0 when none does
RECURSIVE markerEnd(_, _, _)
markerEnd(url, p, k) ==
  IF k > Len(YouTubeMarkers) THEN 0
  ELSE IF MatchesAt(url, p, YouTubeMarkers[k]) THEN p + Len(YouTubeMarkers[k])
  ELSE markerEnd(url, p, k + 1)

\* ^.* is greedy: the alternatives are tried at the last position first;
\* the result is where the marker found ends, 0 when the url has none
RECURSIVE lastMarkerEnd(_, _)
lastMarkerEnd(url, p) ==
  IF p = 0 THEN 0
  ELSE IF markerEnd(url, p, 1) # 0 THEN markerEnd(url, p, 1)
  ELSE lastMarkerEnd(url, p - 1)

\* extractYouTubeId(url): match[7] of
\* /^.*(<alternatives>)\??v?=?([^#&?]*).*/ when it has 11 characters
extractYouTubeId(url) ==
  LET e == lastMarkerEnd(url, Len(url))
      rest == Optional(Optional(Optional(From(url, e), "?"), "v"), "=")
      id == Run(rest, {"#", "&", "?"}, FALSE)
  IN IF e # 0 /\ Len(id) = YouTubeIdLength THEN id ELSE NoId

\* how far the length of a token lies from YouTubeIdLength at most
TokenSlack == 1

\* the beginnings of the urls, by form: the forms youtu.be/<id>, embed/<id>,
\* v/<id> and watch?v=<id>, and a url of none of them
YouTubeForms ==
  [short |-> <<"h", "t", "t", "p", "s", ":", "/", "/", "y", "o", "u", "t", "u", ".", "b", "e", "/">>,
   embed |-> <<"h", "t", "t", "p", "s", ":", "/", "/", "y", ".", "c", "o", "m", "/", "e", "m", "b", "e", "d", "/">>,
   v |-> <<"h", "t", "t", "p", "s", ":", "/", "/", "y", ".", "c", "o", "m", "/", "v", "/">>,
   watch |-> <<"h", "t", "t", "p", "s", ":", "/", "/", "y", ".", "c", "o", "m", "/", "w", "a", "t", "c", "h", "?", "v", "=">>,
   plain |-> <<"h", "t", "t", "p", "s", ":", "/", "/", "x", ".", "c", "o", "m", "/", "p", "/">>]

\* a token of n characters that starts with the character first
Token(first, n) == [i \in 1..n |-> IF i = 1 THEN first ELSE "a"]

\* what may follow the token in a url
UrlTails == { <<>>, <<"?", "t", "=", "1">>, <<"&", "t", "=", "1">>, <<"#", "t">> }

YouTubeInputs ==
  { [fn |-> "extractYouTubeId", done |-> FALSE, form |-> f, id |-> Token(c, n),
     url |-> YouTubeForms[f] \o Token(c, n) \o t] :
       f \in DOMAIN YouTubeForms, c \in {"a", "v"},
       n \in (YouTubeIdLength - TokenSlack)..(YouTubeIdLength + TokenSlack),
       t \in UrlTails }

\* a video link is rendered: extractYouTubeId(url)
ExtractYouTubeId ==
  /\ calc.fn = "extractYouTubeId" /\ ~calc.done
  /\ calc' = [fn |-> "extractYouTubeId", done |-> TRUE, form |-> calc.form, id |-> calc.id,
              url |-> calc.url, out |-> extractYouTubeId(calc.url)]
  /\ UNCHANGED <<server, dash, stu, app>>

\* the first position from p on at which one of the patterns pats is
\* followed by an id character: the id that starts there, NoId when there is
\* none; this is url.match(/<pats>([a-zA-Z0-9_-]+)/)
RECURSIVE firstId(_, _, _)
firstId(url, p, pats) ==
  IF p > Len(url) THEN NoId
  ELSE LET hits == { pat \in pats : /\ MatchesAt(url, p, pat)
                                    /\ Run(From(url, p + Len(pat)), IdChars, TRUE) # <<>> }
       IN IF hits # {}
            THEN Run(From(url, p + Len(CHOOSE pat \in hits : TRUE)), IdChars, TRUE)
            ELSE firstId(url, p + 1, pats)

\* /\/d\/([a-zA-Z0-9_-]+)/ and /[?&]id=([a-zA-Z0-9_-]+)/
DrivePath == { <<"/", "d", "/">> }
DriveQuery == { <<"?", "i", "d", "=">>, <<"&", "i", "d", "=">> }

\* extractGoogleDriveId with the id= parameter tried first
extractGoogleDriveIdQueryFirst(url) ==
  IF firstId(url, 1, DriveQuery) # NoId THEN firstId(url, 1, DriveQuery)
  ELSE firstId(url, 1, DrivePath)

\* extractGoogleDriveId(url)
extractGoogleDriveId(url) ==
  IF firstId(url, 1, DrivePath) # NoId THEN firstId(url, 1, DrivePath)
  ELSE firstId(url, 1, DriveQuery)

\* largest number of characters of an id in a Drive url
DriveIdLen == 2

\* the path of a Drive url: without a /d/ segment, or with the segment
\* /d/<id>, whose id may be missing
DrivePaths ==
  { [id |-> NoId, text |-> <<"o", "p", "e", "n">>] }
    \cup { [id |-> Token("A", n), text |-> <<"f", "i", "l", "e", "/", "d", "/">> \o Token("A", n) \o <<"/", "v", "i", "e", "w">>] :
             n \in 0..DriveIdLen }

\* the query of a Drive url: none, id=<id> as the first or as a later
\* parameter, or a parameter pid=<id>, which is not the parameter id
DriveQueries ==
  { [id |-> NoId, text |-> <<>>] }
    \cup { [id |-> Token("B", n), text |-> q \o Token("B", n)] :
             n \in 0..DriveIdLen, q \in { <<"?", "i", "d", "=">>, <<"?", "x", "=", "1", "&", "i", "d", "=">> } }
    \cup { [id |-> NoId, text |-> <<"?", "p", "i", "d", "=">> \o Token("B", n)] : n \in 0..DriveIdLen }

DriveInputs ==
  { [fn |-> "extractGoogleDriveId", done |-> FALSE, pathId |-> p.id, queryId |-> q.id,
     url |-> <<"h", "t", "t", "p", "s", ":", "/", "/", "d", ".", "c", "o", "m", "/">> \o p.text \o q.text] : p \in DrivePaths, q \in DriveQueries }

\* a document link is rendered: extractGoogleDriveId(url)
ExtractGoogleDriveId ==
  /\ calc.fn = "extractGoogleDriveId" /\ ~calc.done
  /\ calc' = [fn |-> "extractGoogleDriveId", done |-> TRUE, pathId |-> calc.pathId,
              queryId |-> calc.queryId, url |-> calc.url,
              out |-> extractGoogleDriveId(calc.url)]
  /\ UNCHANGED <<server, dash, stu, app>>

\* the inputs of the functions
CalcInputs == ScoreInputs \cup LinkInputs \cup YouTubeInputs \cup DriveInputs

InitCalc ==
  /\ users = InitUsers
  /\ subjects = <<>>
  /\ weeks = <<>>
  /\ reqs = [r \in Conns |-> Idle]
  /\ nextSubject = 1
  /\ nextWeek = 1
  /\ dash = [c \in Conns |-> NoDash]
  /\ progress = <<>>
  /\ now = 1
  /\ stu = NoStudent
  /\ accounts = InitAccounts
  /\ calc \in CalcInputs
  /\ app = NoApp

NextCalc ==
  \/ CalculateScore
  \/ NormalizeLinks
  \/ NormalizeAgain
  \/ ExtractYouTubeId
  \/ ExtractGoogleDriveId

SpecCalc == InitCalc /\ [][NextCalc]_vars

\* --------------------------------------------------- claims under SpecCalc
\* the positions of the MCQ questions (type mcq or no type) of a question list
McqPositions(questions) ==
  { i \in 1..Len(questions) : questions[i].type \in {"mcq", "undefined"} }

\* C16: the score of a selected week has total = the number of its MCQ
\* questions and correct = the number of its MCQ questions for which an option
\* is selected under the question's own index and equals correctAnswer;
\* short-answer questions add to neither.
ScoreCountsMcq ==
  (calc.fn = "calculateScore" /\ calc.done /\ calc.selectedWeek # NoWeek) =>
    LET questions == calc.selectedWeek.questions
        mcq == McqPositions(questions)
    IN /\ calc.out.total = Cardinality(mcq)
       /\ calc.out.correct =
            Cardinality({ i \in mcq : /\ (i - 1) \in DOMAIN calc.answers
                                      /\ calc.answers[i - 1] = questions[i].correctAnswer })

\* ------------------------------------- student dashboard: overall progress
\* number of weeks in the store
OverallWeeks == 2

\* weeks.filter(w => isWeekCompleted(w.id)).length
RECURSIVE completedCount(_, _)
completedCount(weekList, progressData) ==
  IF weekList = <<>> THEN 0
  ELSE (IF isWeekCompleted(progressData, Head(weekList).id) THEN 1 ELSE 0)
         + completedCount(Tail(weekList), progressData)

\* Math.round((c / n) * 100) for 0 <= c <= n, 0 < n: the nearest integer, the
\* upper one of the two when the quotient lies half way
roundPercent(c, n) == (200 * c + n) \div (2 * n)

\* getOverallProgress() over the dashboard's weeks and progressData
getOverallProgress(weekList, progressData) ==
  IF Len(weekList) = 0 THEN 0
  ELSE roundPercent(completedCount(weekList, progressData), Len(weekList))

\* subject card onClick: setSelectedSubject(subject); the effect on
\* selectedSubject calls loadWeeks(selectedSubject.id), whose fetch takes slot c
StuSelectSubject(s) ==
  /\ stu.calls # <<>> /\ stu.selectedSubject = 0
  /\ \E c \in FreeSlots :
       stu' = [stu EXCEPT !.selectedSubject = s,
                          !.calls[c] = [NoCall EXCEPT !.kind = "weeks", !.subjectId = s]]
  /\ UNCHANGED <<server, dash, calc, app>>

\* Back to Subjects: setSelectedSubject(null)
StuBackToSubjects ==
  /\ stu.selectedSubject # 0 /\ stu.selectedWeek = 0
  /\ stu' = [stu EXCEPT !.selectedSubject = 0]
  /\ UNCHANGED <<server, dash, calc, app>>

\* loadWeeks after its fetch: setWeeks(publishedWeeks)
StuLoadWeeksDone(c) ==
  /\ stu.calls[c].kind = "weeks" /\ reqs[c].pc = "done"
  /\ stu' = [stu EXCEPT !.calls[c] = NoCall,
                        !.weeks = sortByWeekNumber(
                                    SelectSeq(dataWeeks(reqs[c]), LAMBDA w : w.published))]
  /\ reqs' = [reqs EXCEPT ![c] = Idle]
  /\ UNCHANGED <<users, subjects, weeks, nextSubject, nextWeek, dash, progress, now, accounts, calc, app>>

\* a stored progress record of the student
StoredProgress(weekId, completed) ==
  [userId |-> "s", weekId |-> weekId, completed |-> completed, lastAccessed |-> 0]

\* the stores with OverallWeeks weeks under subjects 1 and 2
OverallStores ==
  { [k \in { <<ch[w][1], w>> : w \in 1..OverallWeeks } |-> StoredWeek(k[1], k[2], 1, ch[k[2]][2])] :
      ch \in [1..OverallWeeks -> {1, 2} \X BOOLEAN] }

\* the progress records POST /progress has left for these weeks
OverallProgressStores ==
  { [k \in { <<"s", w>> : w \in D } |-> StoredProgress(k[2], k[2] \in C)] :
      D \in SUBSET (1..OverallWeeks), C \in SUBSET (1..OverallWeeks) }

\* the dashboard is mounted over a store with weeks and progress records
InitOverall ==
  /\ users = InitUsers
  /\ subjects = [i \in {1, 2} |-> StoredSubject(i)]
  /\ weeks \in OverallStores
  /\ reqs = [r \in Conns |-> Idle]
  /\ nextSubject = 3
  /\ nextWeek = OverallWeeks + 1
  /\ dash = [c \in Conns |-> NoDash]
  /\ progress \in OverallProgressStores
  /\ now = 1
  /\ stu = [NoStudent EXCEPT !.calls =
              [c \in StuSlots |-> IF c = 0 THEN [NoCall EXCEPT !.kind = "load"] ELSE NoCall]]
  /\ accounts = InitAccounts
  /\ calc = NoCalc
  /\ app = NoApp

\* the student moves between the subjects while the server serves the
\* fetches; the store and the network do not fail in these runs
NextOverall ==
  \/ \E s \in {1, 2} : StuSelectSubject(s)
  \/ StuBackToSubjects
  \/ \E c \in StuSlots :
        \/ stu.calls[c].kind = "load" /\ GetProgress(c, "tokS")
        \/ GetProgressScan(c, TRUE)
        \/ StuLoadDone(c)
        \/ stu.calls[c].kind = "weeks" /\ GetWeeks(c, stu.calls[c].subjectId, TRUE)
        \/ GetWeeksSort(c)
        \/ StuLoadWeeksDone(c)

SpecOverall == InitOverall /\ [][NextOverall]_vars

\* ------------------------------------------------ claims under SpecOverall
\* no loadWeeks or loadProgress of the dashboard is under way
Settled == \A c \in StuSlots : stu.calls[c].kind = "none"

\* the percentage p is the quotient c / n rounded to a nearest integer
Nearest(p, c, n) ==
  /\ 2 * (100 * c - n * p) <= n
  /\ 2 * (n * p - 100 * c) <= n

\* C17: with a subject selected and every load finished, a week counts as
\* completed iff progressData holds a record of it with completed = true, as
\* started iff progressData holds a record of it, and the overall progress is
\* the number of completed published weeks of the selected subject over the
\* number of its published weeks, rounded to a nearest integer percent: 0
\* when it has no published week, and within 0..100.
OverallProgressOfSubject ==
  (stu.selectedSubject # 0 /\ Settled) =>
    LET pd == stu.progressData
        has(w, flag) == \E i \in 1..Len(pd) : pd[i].weekId = w /\ (flag => pd[i].completed)
        pub == { w \in WeeksOf(stu.selectedSubject) : w.published }
        c == Cardinality({ w \in pub : has(w.id, TRUE) })
        n == Cardinality(pub)
        p == getOverallProgress(stu.weeks, pd)
    IN /\ \A w \in 1..OverallWeeks :
            /\ isWeekCompleted(pd, w) <=> has(w, TRUE)
            /\ isWeekStarted(pd, w) <=> has(w, FALSE)
       /\ p \in 0..100
       /\ n = 0 => p = 0
       /\ n > 0 => Nearest(p, c, n)

\* C30: with a subject selected and every load finished, the weeks the
\* dashboard holds are weeks of the selected subject.
WeeksOfSelectedSubject ==
  (stu.selectedSubject # 0 /\ Settled) =>
    \A i \in 1..Len(stu.weeks) : stu.weeks[i].subjectId = stu.selectedSubject

\* C22: for a url of one of the forms youtu.be/<id>, embed/<id>, v/<id> and
\* watch?v=<id>, extractYouTubeId returns <id> when <id> has exactly 11
\* characters and null when it has another length; for a url of no such
\* form it returns null.
YouTubeIdOfForm ==
  (calc.fn = "extractYouTubeId" /\ calc.done) =>
    calc.out = IF calc.form \in {"short", "embed", "v", "watch"}
                    /\ Len(calc.id) = YouTubeIdLength
                 THEN calc.id ELSE NoId

\* C23: extractGoogleDriveId returns the id of the /d/<id> segment when the
\* url has one, otherwise the id of the parameter id=<id> when the url has
\* one, otherwise null; with both in the url the /d/ segment wins.
DriveIdPathFirst ==
  (calc.fn = "extractGoogleDriveId" /\ calc.done) =>
    calc.out = IF calc.pathId # NoId THEN calc.pathId
               ELSE IF calc.queryId # NoId THEN calc.queryId
               ELSE NoId

\* a url with a /d/ segment and an id= parameter has given the id of the
\* segment
DriveIdPathFirstWitness ==
  /\ calc.fn = "extractGoogleDriveId" /\ calc.done
  /\ calc.pathId = <<"A", "a">> /\ calc.queryId = <<"B", "a">>
  /\ calc.out = <<"A", "a">>

\* C18: normalizeContentLinks keeps the length and the order of the list,
\* turns each bare string s into { url: s, title: "" } and returns every
\* other element as it is; normalizing the result again yields the same list.
NormalizeIdempotent ==
  (calc.fn = "normalizeContentLinks" /\ calc.done >= 1) =>
    /\ Len(calc.out) = Len(calc.links)
    /\ \A i \in 1..Len(calc.links) :
         /\ ("str" \in DOMAIN calc.links[i]) =>
               calc.out[i] = [url |-> calc.links[i].str, title |-> ""]
         /\ ("str" \notin DOMAIN calc.links[i]) => calc.out[i] = calc.links[i]
    /\ calc.done = 2 => calc.again = calc.out

\* a legacy string and a titled link have been normalized twice
NormalizeIdempotentWitness ==
  /\ calc.fn = "normalizeContentLinks" /\ calc.done = 2
  /\ calc.links = <<[str |-> GoodUrl], GoodLink>>
  /\ calc.out = <<[url |-> GoodUrl, title |-> ""], GoodLink>>
  /\ calc.again = calc.out

\* ------------------------------------------------------------------ signup
\* number of e-mail addresses that sign up; address 0 is a missing address
SignupEmails == 2

\* bodies of POST /signup and POST /admin/signup; a missing field is "" or
\* "undefined", role is a field the routes do not read
SignupBodies ==
  [email : 0..SignupEmails, password : {"", "p"}, name : {"", "n"},
   adminSecret : {"undefined", "guess", "admin123"}, role : {"undefined", "admin"}]

\* supabase.auth.admin.createUser gives a new account a new id
UserIds == <<"u1", "u2", "u3", "u4", "u5", "u6", "u7", "u8">>
newUserId == UserIds[Cardinality(DOMAIN accounts) + 1]

\* createUser returns an error: the call failed or the address is registered
authError(body, authOk) ==
  ~authOk \/ \E a \in DOMAIN accounts : accounts[a] = body.email

\* the two signup routes up to their kv.set, for a body that has passed the
\* checks of the route
createUser(r, q, body, authOk, role) ==
  IF authError(body, authOk)
    THEN reqs' = [reqs EXCEPT ![r] = [Fail(q, 400) EXCEPT !.todo = <<body>>]] /\ accounts' = accounts
    ELSE /\ accounts' = kvSet(accounts, newUserId, body.email)
         /\ reqs' = [reqs EXCEPT ![r] =
              [q EXCEPT !.pc = "set", !.todo = <<body>>,
                        !.found = [id |-> newUserId, email |-> body.email,
                                   name |-> body.name, role |-> role]]]

\* POST /signup up to the kv.set
PostSignup(r, body, authOk) ==
  /\ reqs[r].pc = "idle"
  /\ LET q == NewReq("signup", "none", 0)
     IN IF body.email = 0 \/ body.password = "" \/ body.name = ""
          THEN reqs' = [reqs EXCEPT ![r] = [Fail(q, 400) EXCEPT !.todo = <<body>>]]
               /\ accounts' = accounts
          ELSE createUser(r, q, body, authOk, "student")
  /\ UNCHANGED <<users, subjects, weeks, nextSubject, nextWeek, dash, progress, now, stu, calc, app>>

\* POST /admin/signup with the required fields checked before the secret
PostAdminSignupFieldsFirst(r, body, authOk) ==
  /\ reqs[r].pc = "idle"
  /\ LET q == NewReq("adminSignup", "none", 0)
     IN IF body.email = 0 \/ body.password = "" \/ body.name = ""
          THEN reqs' = [reqs EXCEPT ![r] = [Fail(q, 400) EXCEPT !.todo = <<body>>]]
               /\ accounts' = accounts
          ELSE IF body.adminSecret # "admin123"
          THEN reqs' = [reqs EXCEPT ![r] = [Fail(q, 403) EXCEPT !.todo = <<body>>]]
               /\ accounts' = accounts
          ELSE createUser(r, q, body, authOk, "admin")
  /\ UNCHANGED <<users, subjects, weeks, nextSubject, nextWeek, dash, progress, now, stu, calc, app>>

\* POST /admin/signup up to the kv.set
PostAdminSignup(r, body, authOk) ==
  /\ reqs[r].pc = "idle"
  /\ LET q == NewReq("adminSignup", "none", 0)
     IN IF body.adminSecret # "admin123"
          THEN reqs' = [reqs EXCEPT ![r] = [Fail(q, 403) EXCEPT !.todo = <<body>>]]
               /\ accounts' = accounts
          ELSE IF body.email = 0 \/ body.password = "" \/ body.name = ""
          THEN reqs' = [reqs EXCEPT ![r] = [Fail(q, 400) EXCEPT !.todo = <<body>>]]
               /\ accounts' = accounts
          ELSE createUser(r, q, body, authOk, "admin")
  /\ UNCHANGED <<users, subjects, weeks, nextSubject, nextWeek, dash, progress, now, stu, calc, app>>

\* the kv.set with one key for every profile
SignupSetFixedKey(r, ok) ==
  /\ reqs[r].op \in {"signup", "adminSignup"} /\ reqs[r].pc = "set"
  /\ IF ok
       THEN /\ users' = kvSet(users, "a", reqs[r].found)
            /\ reqs' = [reqs EXCEPT ![r] = [@ EXCEPT !.pc = "done", !.status = 200]]
       ELSE /\ users' = users
            /\ reqs' = [reqs EXCEPT ![r] = [Fail(@, 500) EXCEPT !.todo = reqs[r].todo]]
  /\ UNCHANGED <<subjects, weeks, nextSubject, nextWeek, dash, progress, now, stu, accounts, calc, app>>

\* await kv.set(`users:${authData.user.id}`, { id, email, name, role, createdAt })
SignupSet(r, ok) ==
  /\ reqs[r].op \in {"signup", "adminSignup"} /\ reqs[r].pc = "set"
  /\ IF ok
       THEN /\ users' = kvSet(users, reqs[r].found.id, reqs[r].found)
            /\ reqs' = [reqs EXCEPT ![r] = [@ EXCEPT !.pc = "done", !.status = 200]]
       ELSE /\ users' = users
            /\ reqs' = [reqs EXCEPT ![r] = [Fail(@, 500) EXCEPT !.todo = reqs[r].todo]]
  /\ UNCHANGED <<subjects, weeks, nextSubject, nextWeek, dash, progress, now, stu, accounts, calc, app>>

\* the server before anyone has signed up
InitSignup ==
  /\ users = <<>>
  /\ subjects = <<>>
  /\ weeks = <<>>
  /\ reqs = [r \in Conns |-> Idle]
  /\ nextSubject = 1
  /\ nextWeek = 1
  /\ dash = [c \in Conns |-> NoDash]
  /\ progress = <<>>
  /\ now = 1
  /\ stu = NoStudent
  /\ accounts = <<>>
  /\ calc = NoCalc
  /\ app = NoApp

\* the signup routes, served one request at a time, called by anyone
NextSignup ==
  \/ \E b \in SignupBodies, authOk \in BOOLEAN : PostSignup(1, b, authOk)
  \/ \E b \in SignupBodies, authOk \in BOOLEAN : PostAdminSignup(1, b, authOk)
  \/ \E ok \in BOOLEAN : SignupSet(1, ok)
  \/ Receive(1)

SpecSignup == InitSignup /\ [][NextSignup]_vars

\* ------------------------------------------------- claims under SpecSignup
\* the profiles that a step writes
Written == { u \in DOMAIN users' : u \notin DOMAIN users \/ users'[u] # users[u] }

\* C19: a step writes a profile with role admin only for a POST /admin/signup
\* whose adminSecret is the shared secret; a POST /admin/signup with another
\* adminSecret is answered 403 at once, with the required fields or without,
\* and creates no account and no profile; POST /signup writes only profiles
\* with role student.
AdminOnlyBySecret ==
  [][/\ \A u \in Written :
          /\ users'[u].role = "admin" =>
                /\ reqs[1].op = "adminSignup"
                /\ reqs[1].todo[1].adminSecret = "admin123"
          /\ reqs[1].op = "signup" => users'[u].role = "student"
     /\ (reqs[1].pc = "idle" /\ reqs'[1].op = "adminSignup"
           /\ reqs'[1].todo[1].adminSecret # "admin123") =>
          /\ reqs'[1].pc = "done" /\ reqs'[1].status = 403
          /\ accounts' = accounts /\ users' = users
     /\ (reqs[1].op = "adminSignup" /\ reqs[1].todo[1].adminSecret # "admin123") =>
          accounts' = accounts /\ users' = users]_vars

\* an admin and a student have signed up, and an admin signup with a guessed
\* secret and no e-mail address has been answered 403
AdminOnlyBySecretWitness ==
  /\ \E u \in DOMAIN users : users[u].role = "admin"
  /\ \E u \in DOMAIN users : users[u].role = "student"
  /\ reqs[1].op = "adminSignup" /\ reqs[1].status = 403
  /\ reqs[1].todo[1].adminSecret = "guess" /\ reqs[1].todo[1].email = 0
  /\ Cardinality(DOMAIN accounts) = 2

\* ------------------------------------------------------------- createWeek
\* number of weeks that are created and largest weekNumber that is sent
CreateWeeks == 2
CreateNumbers == 2

\* a question of a quiz as the admin dashboard sends it
SomeQuestion == [type |-> "mcq", correctAnswer |-> 0]

\* the optional fields of a body of POST /admin/weeks: none, published
\* false alone, or all of them
OptionalFields ==
  { <<>>,
    [published |-> FALSE],
    [videoLinks |-> <<GoodLink>>, audioLinks |-> <<GoodLink>>, pdfLinks |-> <<GoodLink>>,
     questions |-> <<SomeQuestion>>, published |-> TRUE] }

\* bodies of POST /admin/weeks; a missing required field carries its falsy
\* value, a missing optional field is absent
CreateBodies ==
  { Merge(req, opt) : req \in [subjectId : {0, 1, 2}, weekNumber : 0..CreateNumbers,
                               title : {"", "t1"}],
                      opt \in OptionalFields }

\* an admin and a student call POST /admin/weeks, one request at a time
NextCreate ==
  \/ \E t \in {"tokA", "tokS"}, b \in CreateBodies, ok \in BOOLEAN :
        nextWeek <= CreateWeeks /\ PostAdminWeeks(1, t, b, ok)
  \/ \E ok \in BOOLEAN : PostAdminWeeksSet(1, ok)
  \/ Receive(1)

SpecCreate == Init /\ [][NextCreate]_vars

\* ------------------------------------------------- claims under SpecCreate
\* C20: a POST /admin/weeks of an admin whose body lacks subjectId,
\* weekNumber or title is answered 400 and stores nothing; for any other
\* body, whatever its positive weekNumber, the route builds a week with a
\* new id, published false and the lists empty where the body has none, and
\* its kv.set adds exactly that week under <subjectId, new id> and changes
\* no other key.
CreateWeekValidates ==
  [][/\ \A b \in CreateBodies :
          PostAdminWeeks(1, "tokA", b, TRUE) =>
            IF b.subjectId = 0 \/ b.weekNumber = 0 \/ b.title = ""
              THEN reqs'[1].pc = "done" /\ reqs'[1].status = 400 /\ weeks' = weeks
              ELSE /\ reqs'[1].pc = "set"
                   /\ \A k \in DOMAIN weeks : k[2] # reqs'[1].found.id
                   /\ reqs'[1].found.subjectId = b.subjectId
                   /\ reqs'[1].found.weekNumber = b.weekNumber
                   /\ reqs'[1].found.title = b.title
                   /\ reqs'[1].found.published =
                        ("published" \in DOMAIN b /\ b.published)
                   /\ \A f \in {"videoLinks", "audioLinks", "pdfLinks", "questions"} :
                        reqs'[1].found[f] = IF f \in DOMAIN b THEN b[f] ELSE <<>>
     /\ (reqs[1].op = "createWeek" /\ reqs[1].pc = "set" /\ reqs'[1].status = 200) =>
          LET week == reqs[1].found
              key == <<week.subjectId, week.id>>
          IN /\ key \notin DOMAIN weeks
             /\ DOMAIN weeks' = DOMAIN weeks \cup {key}
             /\ weeks'[key] = week
             /\ \A k \in DOMAIN weeks : weeks'[k] = weeks[k]
     /\ weeks' # weeks => (reqs[1].op = "createWeek" /\ reqs'[1].status = 200)]_vars

\* a week with weekNumber 2 was stored from a body without optional fields,
\* and a later body without a title has been answered 400
CreateWeekValidatesWitness ==
  /\ reqs[1].op = "createWeek" /\ reqs[1].status = 400
  /\ DOMAIN weeks = {<<1, 1>>}
  /\ weeks[<<1, 1>>].weekNumber = 2
  /\ weeks[<<1, 1>>].published = FALSE
  /\ weeks[<<1, 1>>].videoLinks = <<>> /\ weeks[<<1, 1>>].questions = <<>>

\* ------------------------------------------------------- profiles in use
\* number of accounts, subjects, weeks and progress records that are created
ProfWrites == 2

\* GET /user: 401, 500 when kv.get throws, 404 without profile, the profile
GetUser(r, token, ok) ==
  /\ reqs[r].pc = "idle"
  /\ LET q == NewReq("getUser", token, 0)
     IN reqs' = [reqs EXCEPT ![r] =
          IF token = "none" \/ getUser(token) = "" THEN Fail(q, 401)
          ELSE IF ~ok THEN Fail(q, 500)
          ELSE IF getUser(token) \notin DOMAIN users THEN Fail(q, 404)
          ELSE Reply([q EXCEPT !.found = users[getUser(token)]], 200)]
  /\ UNCHANGED <<users, subjects, weeks, nextSubject, nextWeek, dash, progress, now, stu, accounts, calc, app>>

\* the accounts, subjects, weeks and progress records created so far
Created ==
  (nextSubject - 1) + (nextWeek - 1) + (now - 1)
    + (Cardinality(DOMAIN accounts) - Cardinality(DOMAIN InitAccounts))

\* complete bodies of the signup routes
ProfileBodies ==
  [email : {1}, password : {"p"}, name : {"n"},
   adminSecret : {"guess", "admin123"}, role : {"admin"}]

\* every route of the server, one request at a time, after the admin and the
\* student have signed up
NextProfile ==
  \/ \E b \in ProfileBodies, authOk \in BOOLEAN : Created < ProfWrites /\ PostSignup(1, b, authOk)
  \/ \E b \in ProfileBodies, authOk \in BOOLEAN : Created < ProfWrites /\ PostAdminSignup(1, b, authOk)
  \/ \E ok \in BOOLEAN : SignupSet(1, ok)
  \/ \E t \in Tokens, ok \in BOOLEAN : GetUser(1, t, ok)
  \/ \E b \in SubjectBodies, ok \in BOOLEAN :
        Created < ProfWrites /\ PostAdminSubjects(1, "tokA", b, ok)
  \/ \E ok \in BOOLEAN : PostAdminSubjectsSet(1, ok)
  \/ \E i \in 1..ProfWrites, ok \in BOOLEAN : DeleteAdminSubjects(1, "tokA", i, ok)
  \/ \E ok \in BOOLEAN : DeleteSubjectKey(1, ok)
  \/ \E ok \in BOOLEAN : DeleteSubjectScan(1, ok)
  \/ \E ok \in BOOLEAN : DeleteSubjectWeek(1, ok)
  \/ \E b \in WeekBodies({1}, {<<>>}), ok \in BOOLEAN :
        Created < ProfWrites /\ PostAdminWeeks(1, "tokA", b, ok)
  \/ \E ok \in BOOLEAN : PostAdminWeeksSet(1, ok)
  \/ \E i \in 1..ProfWrites, b \in UpdateBodies, ok \in BOOLEAN : PutAdminWeeks(1, "tokA", i, b, ok)
  \/ \E ok \in BOOLEAN : PutAdminWeeksScan(1, ok)
  \/ \E ok \in BOOLEAN : PutAdminWeeksSet(1, ok)
  \/ \E i \in 1..ProfWrites, ok \in BOOLEAN : DeleteAdminWeeks(1, "tokA", i, ok)
  \/ \E ok \in BOOLEAN : DeleteAdminWeeksScan(1, ok)
  \/ \E ok \in BOOLEAN : DeleteAdminWeeksDel(1, ok)
  \/ \E t \in {"tokA", "tokS"}, b \in ProgressBodies : Created < ProfWrites /\ PostProgress(1, t, b)
  \/ \E ok \in BOOLEAN : PostProgressSet(1, ok)
  \/ \E t \in {"tokA", "tokS"} : GetProgress(1, t)
  \/ \E ok \in BOOLEAN : GetProgressScan(1, ok)
  \/ \E ok \in BOOLEAN : GetSubjects(1, ok)
  \/ \E ok \in BOOLEAN : GetWeeks(1, 1, ok)
  \/ GetWeeksSort(1)
  \/ Receive(1)

SpecProfile == Init /\ [][NextProfile]_vars

\* ------------------------------------------------ claims under SpecProfile
\* C21: no step of any route changes or removes a profile that is stored, so
\* the role of an account never changes.
ProfileImmutable ==
  [][\A u \in DOMAIN users : u \in DOMAIN users' /\ users'[u] = users[u]]_vars

\* an admin has signed up, and afterwards a week was created and its update
\* has been answered with success
ProfileImmutableWitness ==
  /\ \E u \in DOMAIN users \ DOMAIN InitUsers : users[u].role = "admin"
  /\ reqs[1].op = "updateWeek" /\ reqs[1].status = 200

\* ------------------------------------------------------------- the quiz
\* number of questions of the week the student opens
QuizQuestions == 2

\* const questionType = q.type || "mcq": the odd questions of the week are
\* multiple choice, the even ones short answer
questionType(idx) == IF idx % 2 = 1 THEN "mcq" ELSE "short_answer"

\* what the textarea may hold after an edit: nothing or a text
QuizTexts == {"", "a"}

\* textarea onChange: if (!showResults) setAnswers({ ...answers, [idx]: e.target.value })
StuEditText(idx, text) ==
  /\ stu.selectedWeek # 0
  /\ stu' = IF ~stu.showResults
              THEN [stu EXCEPT !.answers =
                      [i \in DOMAIN stu.answers \cup {idx} |->
                         IF i = idx THEN text ELSE stu.answers[i]]]
              ELSE stu
  /\ UNCHANGED <<server, dash, calc, app>>

\* no fetch of the dashboard is under way
Quiet == \A c \in StuSlots : stu.calls[c].kind = "none"

\* the student takes the quiz of a week while the server serves the fetches
\* of saveProgress and loadProgress; the student opens a week and submits
\* once the fetches of the step before have ended
NextQuiz ==
  \/ \E w \in 1..StuWeeks : Quiet /\ StuOpenWeek(w)
  \/ \E idx \in 1..QuizQuestions, optIdx \in {0, 1} :
       questionType(idx) = "mcq" /\ StuAnswer(idx, optIdx)
  \/ \E idx \in 1..QuizQuestions, text \in QuizTexts :
       questionType(idx) = "short_answer" /\ StuEditText(idx, text)
  \/ Quiet /\ StuSubmitQuiz
  \/ StuTryAgain
  \/ StuBack
  \/ \E c \in StuSlots :
        \/ /\ stu.calls[c].kind = "save" /\ now <= MaxPosts
           /\ PostProgress(c, "tokS", [weekId |-> stu.calls[c].weekId,
                                       completed |-> IF stu.calls[c].completed THEN "true" ELSE "false",
                                       userId |-> ""])
        \/ \E ok \in BOOLEAN : PostProgressSet(c, ok)
        \/ stu.calls[c].kind = "load" /\ GetProgress(c, "tokS")
        \/ \E ok \in BOOLEAN : GetProgressScan(c, ok)
        \/ StuSaveDone(c)
        \/ StuLoadDone(c)
        \/ StuFetchThrows(c)

SpecQuiz == InitStudent /\ [][NextQuiz]_vars

\* --------------------------------------------------- claims under SpecQuiz
\* C24: while the results of a submitted quiz are shown no step changes the
\* answers; the step that ends showing them (Try Again or Back), and every
\* step that leaves the week, leaves the answers empty and showResults
\* false; and the quiz is submitted only with at least one answer entered,
\* which the submission keeps.
QuizSubmissionTerminal ==
  [][/\ (stu.showResults /\ stu'.showResults) => stu'.answers = stu.answers
     /\ (stu.showResults /\ ~stu'.showResults) => DOMAIN stu'.answers = {}
     /\ (stu.selectedWeek # 0 /\ stu'.selectedWeek = 0) =>
          (DOMAIN stu'.answers = {} /\ ~stu'.showResults)
     /\ (~stu.showResults /\ stu'.showResults) =>
          (DOMAIN stu.answers # {} /\ stu'.answers = stu.answers)]_vars

\* a quiz with a choice and a text entered has been submitted and its
\* completion has been stored
QuizSubmissionTerminalWitness ==
  /\ stu.showResults /\ DOMAIN stu.answers = {1, 2}
  /\ stu.answers[1] = 1 /\ stu.answers[2] = "a"
  /\ \E k \in DOMAIN progress : progress[k].completed

\* ---------------------------------------------------- concurrent requests
\* the payload of the PUT /admin/weeks/1 that each of two callers sends: the
\* two name disjoint sets of top-level fields
RaceUpdates == <<[published |-> TRUE], [title |-> "t2"]>>

RaceSlots == DOMAIN RaceUpdates

\* two admins update and delete the week of subject 1, and delete the
\* subject, while the server interleaves the store operations of their
\* requests
NextRace ==
  \E r \in RaceSlots :
    \/ \E ok \in BOOLEAN : PutAdminWeeks(r, "tokA", 1, RaceUpdates[r], ok)
    \/ \E ok \in BOOLEAN : PutAdminWeeksScan(r, ok)
    \/ \E ok \in BOOLEAN : PutAdminWeeksSet(r, ok)
    \/ \E ok \in BOOLEAN : DeleteAdminWeeks(r, "tokA", 1, ok)
    \/ \E ok \in BOOLEAN : DeleteAdminWeeksScan(r, ok)
    \/ \E ok \in BOOLEAN : DeleteAdminWeeksDel(r, ok)
    \/ \E ok \in BOOLEAN : DeleteAdminSubjects(r, "tokA", 1, ok)
    \/ \E ok \in BOOLEAN : DeleteSubjectKey(r, ok)
    \/ \E ok \in BOOLEAN : DeleteSubjectScan(r, ok)
    \/ \E ok \in BOOLEAN : DeleteSubjectWeek(r, ok)
    \/ Receive(r)

SpecRace == InitDash /\ [][NextRace]_vars

\* --------------------------------------------------- claims under SpecRace
\* C26: while the success of a DELETE /admin/weeks/:id is with its caller the
\* store holds no week with that id, and while the success of a DELETE
\* /admin/subjects/:id is with its caller the store holds no week of that
\* subject, whatever the other request does.
DeletedWeekStaysDeleted ==
  \A r \in RaceSlots :
    (reqs[r].pc = "done" /\ reqs[r].status = 200) =>
       /\ reqs[r].op = "deleteWeek" => \A k \in DOMAIN weeks : weeks[k].id # reqs[r].id
       /\ reqs[r].op = "deleteSubject" =>
            \A k \in DOMAIN weeks : weeks[k].subjectId # reqs[r].id

\* C27: when the two updates of the week have both been answered with
\* success, the stored week carries the values of both payloads.
BothUpdatesKept ==
  (\A r \in RaceSlots :
      reqs[r].op = "updateWeek" /\ reqs[r].pc = "done" /\ reqs[r].status = 200) =>
    \E k \in DOMAIN weeks :
       \A r \in RaceSlots : \A f \in DOMAIN RaceUpdates[r] :
          weeks[k][f] = RaceUpdates[r][f]

\* ------------------------------------------------------- a single request
\* number of weeks of subject 1 in the store the request is served from
FailWeeks == 2

FailSubjects == [i \in {1} |-> StoredSubject(i)]

FailStore == [k \in {1} \X (1..FailWeeks) |-> StoredWeek(k[1], k[2], k[2], FALSE)]

\* subject 1 and its weeks are stored and no request has been received
InitFail ==
  /\ users = InitUsers
  /\ subjects = FailSubjects
  /\ weeks = FailStore
  /\ reqs = [r \in Conns |-> Idle]
  /\ nextSubject = 2
  /\ nextWeek = FailWeeks + 1
  /\ dash = [c \in Conns |-> NoDash]
  /\ progress = <<>>
  /\ now = 1
  /\ stu = NoStudent
  /\ accounts = InitAccounts
  /\ calc = NoCalc
  /\ app = NoApp

\* one request, to any route, is served from that store up to its response
NextFail ==
  \/ \E b \in SignupBodies, authOk \in BOOLEAN : PostSignup(1, b, authOk)
  \/ \E b \in SignupBodies, authOk \in BOOLEAN : PostAdminSignup(1, b, authOk)
  \/ \E ok \in BOOLEAN : SignupSet(1, ok)
  \/ \E t \in Tokens, ok \in BOOLEAN : GetUser(1, t, ok)
  \/ \E t \in Tokens, b \in SubjectBodies, ok \in BOOLEAN : PostAdminSubjects(1, t, b, ok)
  \/ \E ok \in BOOLEAN : PostAdminSubjectsSet(1, ok)
  \/ \E ok \in BOOLEAN : GetSubjects(1, ok)
  \/ \E t \in Tokens, i \in {1, 2}, ok \in BOOLEAN : DeleteAdminSubjects(1, t, i, ok)
  \/ \E ok \in BOOLEAN : DeleteSubjectKey(1, ok)
  \/ \E ok \in BOOLEAN : DeleteSubjectScan(1, ok)
  \/ \E ok \in BOOLEAN : DeleteSubjectWeek(1, ok)
  \/ \E t \in Tokens, b \in WeekBodies({1}, {<<>>}), ok \in BOOLEAN : PostAdminWeeks(1, t, b, ok)
  \/ \E ok \in BOOLEAN : PostAdminWeeksSet(1, ok)
  \/ \E t \in Tokens, i \in 1..(FailWeeks + 1), b \in UpdateBodies, ok \in BOOLEAN :
        PutAdminWeeks(1, t, i, b, ok)
  \/ \E ok \in BOOLEAN : PutAdminWeeksScan(1, ok)
  \/ \E ok \in BOOLEAN : PutAdminWeeksSet(1, ok)
  \/ \E t \in Tokens, i \in 1..(FailWeeks + 1), ok \in BOOLEAN : DeleteAdminWeeks(1, t, i, ok)
  \/ \E ok \in BOOLEAN : DeleteAdminWeeksScan(1, ok)
  \/ \E ok \in BOOLEAN : DeleteAdminWeeksDel(1, ok)
  \/ \E i \in {1, 2}, ok \in BOOLEAN : GetWeeks(1, i, ok)
  \/ GetWeeksSort(1)
  \/ \E t \in Tokens, b \in ProgressBodies : PostProgress(1, t, b)
  \/ \E ok \in BOOLEAN : PostProgressSet(1, ok)
  \/ \E t \in Tokens : GetProgress(1, t)
  \/ \E ok \in BOOLEAN : GetProgressScan(1, ok)

SpecFail == InitFail /\ [][NextFail]_vars

\* --------------------------------------------------- claims under SpecFail
\* C28: when the request has been answered 400, 401, 403, 404 or 500 the
\* key-value store holds exactly what it held before the request.
ErrorLeavesStore ==
  (reqs[1].pc = "done" /\ reqs[1].status \in {400, 401, 403, 404, 500}) =>
     /\ users = InitUsers
     /\ subjects = FailSubjects
     /\ weeks = FailStore
     /\ progress = <<>>

\* ----------------------------------------------------------------- App
\* the access tokens a session may carry: of the admin, of the student, of an
\* account without profile, and one the identity provider rejects
SessionTokens == {"tokA", "tokS", "tokN", "bad"}

\* what App returns: the spinner, AuthPage or one of the dashboards
render ==
  IF app.loading THEN "loading"
  ELSE IF app.user = NoUser THEN "auth"
  ELSE IF app.user.role = "admin" THEN "admin"
  ELSE "student"

\* checkExistingSession after await supabase.auth.getSession(): a session,
\* no session ("null") or a rejection ("throws"); finally setLoading(false)
CheckSessionGot(outcome) ==
  /\ app.pc = "getSession"
  /\ app' = IF outcome \in SessionTokens
              THEN [app EXCEPT !.pc = "fetchUser", !.session = outcome]
              ELSE [app EXCEPT !.pc = "idle", !.loading = FALSE]
  /\ UNCHANGED <<server, dash, stu, calc>>

\* checkExistingSession after its fetch of /user: if (response.ok) setUser,
\* setAccessToken; finally setLoading(false)
CheckSessionDone ==
  /\ app.pc = "fetchUser" /\ reqs[0].pc = "done"
  /\ app' = IF reqs[0].status = 200
              THEN [app EXCEPT !.user = reqs[0].found, !.accessToken = app.session,
                               !.loading = FALSE, !.pc = "idle", !.session = ""]
              ELSE [app EXCEPT !.loading = FALSE, !.pc = "idle", !.session = ""]
  /\ reqs' = [reqs EXCEPT ![0] = Idle]
  /\ UNCHANGED <<users, subjects, weeks, nextSubject, nextWeek, dash, progress, now, stu, accounts, calc>>

\* the fetch of /user rejects: the catch block logs; with checkExistingSession
\* finally setLoading(false), with AuthPage's handleLogin setError
AppFetchThrows ==
  /\ app.pc \in {"fetchUser", "loginFetch"} /\ reqs[0].pc \in {"idle", "done"}
  /\ app' = [app EXCEPT !.loading = FALSE, !.pc = "idle", !.session = ""]
  /\ reqs' = [reqs EXCEPT ![0] = Idle]
  /\ UNCHANGED <<users, subjects, weeks, nextSubject, nextWeek, dash, progress, now, stu, accounts, calc>>

\* AuthPage handleLogin after await supabase.auth.signInWithPassword():
\* a session, or signInError ("error"), which is thrown and shown
AuthSignedIn(outcome) ==
  /\ render = "auth" /\ app.pc = "idle"
  /\ app' = IF outcome \in SessionTokens
              THEN [app EXCEPT !.pc = "loginFetch", !.session = outcome]
              ELSE app
  /\ UNCHANGED <<server, dash, stu, calc>>

\* AuthPage handleLogin after its fetch of /user: throw unless response.ok,
\* else onLogin(userData.user, access_token), which is App's handleLogin:
\* setUser(userData); setAccessToken(token)
AuthLoginDone ==
  /\ app.pc = "loginFetch" /\ reqs[0].pc = "done"
  /\ app' = IF reqs[0].status = 200
              THEN [app EXCEPT !.user = reqs[0].found, !.accessToken = app.session,
                               !.pc = "idle", !.session = ""]
              ELSE [app EXCEPT !.pc = "idle", !.session = ""]
  /\ reqs' = [reqs EXCEPT ![0] = Idle]
  /\ UNCHANGED <<users, subjects, weeks, nextSubject, nextWeek, dash, progress, now, stu, accounts, calc>>

\* a dashboard calls onLogout: handleLogout up to await supabase.auth.signOut()
AppLogout ==
  /\ render \in {"admin", "student"} /\ app.pc = "idle"
  /\ app' = [app EXCEPT !.pc = "signOut"]
  /\ UNCHANGED <<server, dash, stu, calc>>

\* supabase.auth.signOut() settles: it resolves with { error: null } ("ok"),
\* resolves with { error } ("error"), as signInWithPassword and getUser do, or
\* rejects ("throws")
SignOutSettles(outcome) ==
  /\ app.pc = "signOut"
  /\ app' = [app EXCEPT !.pc = "signedOut", !.result = outcome]
  /\ UNCHANGED <<server, dash, stu, calc>>

\* handleLogout after the await: setUser(null); setAccessToken(""); a
\* rejection skips both and is logged
AppLogoutDone ==
  /\ app.pc = "signedOut"
  /\ app' = IF app.result = "throws"
              THEN [app EXCEPT !.pc = "idle", !.result = "none"]
              ELSE [app EXCEPT !.user = NoUser, !.accessToken = "", !.pc = "idle", !.result = "none"]
  /\ UNCHANGED <<server, dash, stu, calc>>

\* App is mounted: useEffect calls checkExistingSession()
InitApp ==
  /\ users = InitUsers
  /\ subjects = <<>>
  /\ weeks = <<>>
  /\ reqs = [r \in Conns |-> Idle]
  /\ nextSubject = 1
  /\ nextWeek = 1
  /\ dash = [c \in Conns |-> NoDash]
  /\ progress = <<>>
  /\ now = 1
  /\ stu = NoStudent
  /\ accounts = InitAccounts
  /\ calc = NoCalc
  /\ app = [NoApp EXCEPT !.pc = "getSession"]

\* the user logs in and out while the server answers the fetches of /user
\* and the sign-up of another user
NextApp ==
  \/ \E outcome \in SessionTokens \cup {"null", "throws"} : CheckSessionGot(outcome)
  \/ \E ok \in BOOLEAN : app.pc \in {"fetchUser", "loginFetch"} /\ GetUser(0, app.session, ok)
  \/ CheckSessionDone
  \/ AppFetchThrows
  \/ \E outcome \in SessionTokens \cup {"error"} : AuthSignedIn(outcome)
  \/ AuthLoginDone
  \/ AppLogout
  \/ \E outcome \in {"ok", "error", "throws"} : SignOutSettles(outcome)
  \/ AppLogoutDone
  \/ \E b \in ProfileBodies, authOk \in BOOLEAN : PostSignup(1, b, authOk)
  \/ \E ok \in BOOLEAN : SignupSet(1, ok)
  \/ Receive(1)

SpecApp == InitApp /\ [][NextApp]_vars

\* ---------------------------------------------------- claims under SpecApp
\* C29: in every state user is non-null exactly when accessToken is
\* non-empty; the admin dashboard is rendered only for a user whose role is
\* admin and the student dashboard for every other user; the step of
\* handleLogout after a successful sign-out clears user and accessToken and
\* after a failed one changes neither; and checkExistingSession ends with
\* loading false.
AppSessionConsistent ==
  [][/\ (app'.user # NoUser) <=> (app'.accessToken # "")
     /\ (~app'.loading /\ app'.user # NoUser) =>
          render' = IF app'.user.role = "admin" THEN "admin" ELSE "student"
     /\ (app.pc = "signedOut" /\ app.result = "ok") =>
          (app'.user = NoUser /\ app'.accessToken = "")
     /\ (app.pc = "signedOut" /\ app.result # "ok") =>
          (app'.user = app.user /\ app'.accessToken = app.accessToken)
     /\ (app.pc \in {"getSession", "fetchUser"} /\ app'.pc = "idle") => ~app'.loading]_vars

====
